---------------------------- MODULE Spec2Model ----------------------------
(***************************************************************************)
(* Verification model of the rustrunner fuzzing orchestration engine:      *)
(*   - the corpus manager (src/src/corpus.rs),                             *)
(*   - the worker loop and the master loop (src/src/main.rs),              *)
(*   - the edge-set helpers (src/src/coverage.rs).                         *)
(*                                                                         *)
(* Three specifications are defined over the same variables:               *)
(*   SpecCorpus  one CorpusManager driven through its public operations;   *)
(*   SpecCoverage  one call of a coverage.rs routine on one replica;       *)
(*   Spec        NUM_WORKERS worker threads and the master thread, their   *)
(*               channels, their coverage replicas and their file writes.  *)
(*                                                                         *)
(* f64 quantities (performance_score, the selection scores, the random     *)
(* draw) are exact rationals <<numerator, denominator>>.                   *)
(***************************************************************************)
EXTENDS Integers, Sequences, FiniteSets, TLC

(***************************************************************************)
(* Bounds of the model.                                                    *)
(***************************************************************************)
\* number of worker threads (--num-workers); the master has id NUM_WORKERS
NUM_WORKERS == 1
\* candidate programs are 0..NumCands; candidate 0 has an empty source
NumCands == 1
\* coverage edges are 1..NumEdges
NumEdges == 1
\* capacity assumed for each (unbounded) mpsc channel
MaxQueue == 2
\* largest corpus a worker grows by bytecode novelty alone
MaxCorpus == 1
\* SpecCorpus: number of operations applied to the manager
MaxOps == 4
\* SpecCorpus: largest number of entries
MaxEntries == 2
\* SpecCorpus: the random draw rng.gen::<f64>() is k / RngDen, k in 0..RngDen-1
RngDen == 8
\* number of .json files an outside process has put into remote_corpus/
NumRemote == 1
\* SpecCoverage: coverage edges are 1..NumCovEdges
NumCovEdges == 5
\* SpecCoverage: longest slice passed to common_subset, over edges 1..MaxSlice
MaxSlice == 3

(***************************************************************************)
(* Exact rational arithmetic for the f64 computations.                     *)
(***************************************************************************)
RECURSIVE GCD(_, _)
GCD(a, b) == IF b = 0 THEN a ELSE GCD(b, a % b)

Abs(x) == IF x < 0 THEN -x ELSE x

Norm(n, d) ==
    LET g == GCD(Abs(n), d) IN <<n \div g, d \div g>>

\* products and sums are reduced before they are formed, which keeps the
\* intermediate values small
RMul(p, q) ==
    LET g1 == GCD(Abs(p[1]), q[2])
        g2 == GCD(Abs(q[1]), p[2])
    IN Norm((p[1] \div g1) * (q[1] \div g2), (p[2] \div g2) * (q[2] \div g1))
RAdd(p, q) ==
    LET g == GCD(p[2], q[2])
    IN Norm(p[1] * (q[2] \div g) + q[1] * (p[2] \div g), (p[2] \div g) * q[2])
RSub(p, q) == RAdd(p, <<-q[1], q[2]>>)
RLeq(p, q) ==
    LET g == GCD(p[2], q[2])
    IN p[1] * (q[2] \div g) <= q[1] * (p[2] \div g)
RLess(p, q) ==
    LET g == GCD(p[2], q[2])
    IN p[1] * (q[2] \div g) < q[1] * (p[2] \div g)
RZero == <<0, 1>>
ROne == <<1, 1>>

(***************************************************************************)
(* Programs.  A candidate c stands for the pair (program_ir, js_code); the *)
(* IR of candidate c is the text Ir(c) and its source the text Js(c).      *)
(* Texts are identified by number; only their length is observed.          *)
(***************************************************************************)
Cands == 0 .. NumCands
Ir(c) == c
Js(c) == c
\* js_code.len(): candidate 0 is the empty string
JsLen(j) == 1000 * j
\* program_ir.len(): the IR of candidates 2 and above exceeds 100 KB
IrLen(i) == 60000 * i

NoEntry == [none |-> TRUE]

(***************************************************************************)
(* CorpusEntry and CorpusManager (corpus.rs).                              *)
(***************************************************************************)
CorpusEntry_new(program_ir, js_code) ==
    [ index |-> 0,
      program_ir |-> program_ir,
      js_code |-> js_code,
      times_used |-> 0,
      coverage_found |-> 0,
      success_count |-> 0,
      error_count |-> 0,
      timeout_count |-> 0,
      performance_score |-> ROne,
      bytecode_analysis |-> FALSE,
      has_novel_bytecode |-> FALSE ]

CorpusManager_new(worker_id) ==
    [ worker_id |-> worker_id,
      entries |-> << >>,
      total_coverage |-> << >>,
      last_new_coverage |-> 0,
      total_mutations |-> 0,
      successful_mutations |-> 0,
      selection_counter |-> 0,
      bytecode_collector |-> FALSE ]

\* position of the first entry carrying `index` (iter().find / position), 0 if none
RECURSIVE FindFrom(_, _, _)
FindFrom(entries, index, i) ==
    IF i > Len(entries) THEN 0
    ELSE IF entries[i].index = index THEN i
    ELSE FindFrom(entries, index, i + 1)

Find(entries, index) == FindFrom(entries, index, 1)

\* add_entry pushing the passed entry with the counters it carries
add_entry_KeepCounters(m, entry) ==
    [m EXCEPT !.entries = Append(@, [entry EXCEPT !.index = Len(m.entries)])]

add_entry(m, entry) ==
    [m EXCEPT !.entries = Append(@,
        [entry EXCEPT !.index = Len(m.entries),
                      !.times_used = 0,
                      !.success_count = 0,
                      !.error_count = 0,
                      !.timeout_count = 0,
                      !.coverage_found = 0,
                      !.performance_score = ROne])]

\* an insert that keeps the value of a key already present
MapInsert_KeepExisting(map, key, value) ==
    [k \in (DOMAIN map) \cup {key} |->
        IF k \in DOMAIN map THEN map[k] ELSE value]

\* HashMap::insert(key, value)
MapInsert(map, key, value) ==
    [k \in (DOMAIN map) \cup {key} |-> IF k = key THEN value ELSE map[k]]

update_entry_success(m, index, new_coverage, now) ==
    LET pos == Find(m.entries, index)
        es  == IF pos = 0 THEN m.entries
               ELSE [m.entries EXCEPT ![pos].success_count = @ + 1,
                                      ![pos].coverage_found = @ + new_coverage]
    IN [m EXCEPT !.entries = es,
                 !.last_new_coverage = now,
                 !.total_coverage = MapInsert(@, index, new_coverage)]

\* record_mutation_result counting every mutation as successful
record_mutation_result_CountsSuccess(m, success) ==
    [m EXCEPT !.total_mutations = @ + 1,
              !.successful_mutations = @ + 1]

record_mutation_result(m, success) ==
    [m EXCEPT !.total_mutations = @ + 1,
              !.successful_mutations = IF success THEN @ + 1 ELSE @]

update_entry_error(m, index) ==
    LET pos == Find(m.entries, index)
        es  == IF pos = 0 THEN m.entries
               ELSE [m.entries EXCEPT ![pos].error_count = @ + 1,
                                      ![pos].performance_score = RMul(@, <<95, 100>>)]
    IN record_mutation_result([m EXCEPT !.entries = es], FALSE)

\* update_entry_timeout taking 0.10 off the score instead of 10% of it
update_entry_timeout_Subtract(m, index) ==
    LET pos == Find(m.entries, index)
        es  == IF pos = 0 THEN m.entries
               ELSE [m.entries EXCEPT ![pos].timeout_count = @ + 1,
                                      ![pos].performance_score = RSub(@, <<1, 10>>)]
    IN record_mutation_result([m EXCEPT !.entries = es], FALSE)

update_entry_timeout(m, index) ==
    LET pos == Find(m.entries, index)
        es  == IF pos = 0 THEN m.entries
               ELSE [m.entries EXCEPT ![pos].timeout_count = @ + 1,
                                      ![pos].performance_score = RMul(@, <<90, 100>>)]
    IN record_mutation_result([m EXCEPT !.entries = es], FALSE)

get_feature_count(m, feature) ==
    IF feature \in DOMAIN m.total_coverage THEN m.total_coverage[feature] ELSE 0

\* VecDeque::remove(pos)
RemoveAt(s, pos) ==
    [i \in 1 .. (Len(s) - 1) |-> IF i < pos THEN s[i] ELSE s[i + 1]]

delete_entry(m, index) ==
    LET pos == Find(m.entries, index)
    IN IF pos = 0 THEN m ELSE [m EXCEPT !.entries = RemoveAt(@, pos)]

\* the score closure of select_next_input
Score(entry) ==
    LET size_factor     == Norm(1000, 1000 + JsLen(entry.js_code))
        success_factor  == Norm(10 + 2 * entry.success_count, 10)
        coverage_factor == Norm(10 + entry.coverage_found, 10)
        error_penalty   == Norm(10, 10 + 3 * entry.error_count)
        timeout_penalty == Norm(10, 10 + 4 * entry.timeout_count)
        usage_penalty   == Norm(10, 10 + 2 * entry.times_used)
    IN RMul(entry.performance_score,
            RMul(size_factor,
              RMul(success_factor,
                RMul(coverage_factor,
                  RMul(error_penalty,
                    RMul(timeout_penalty, usage_penalty))))))

Scores(entries) == [i \in 1 .. Len(entries) |-> Score(entries[i])]

RECURSIVE SumFrom(_, _)
SumFrom(scores, i) ==
    IF i > Len(scores) THEN RZero ELSE RAdd(scores[i], SumFrom(scores, i + 1))

TotalScore(scores) == SumFrom(scores, 1)

\* Walk with the test made before the subtraction
RECURSIVE Walk_TestBeforeSubtract(_, _, _)
Walk_TestBeforeSubtract(scores, i, selection) ==
    IF i > Len(scores) THEN 0
    ELSE IF RLeq(selection, RZero) THEN i
    ELSE Walk_TestBeforeSubtract(scores, i + 1, RSub(selection, scores[i]))

\* the selection loop: subtract each score in turn, stop at the first
\* position where the remainder is <= 0.0; 0 when the loop falls through
RECURSIVE Walk(_, _, _)
Walk(scores, i, selection) ==
    IF i > Len(scores) THEN 0
    ELSE LET rest == RSub(selection, scores[i])
         IN IF RLeq(rest, RZero) THEN i ELSE Walk(scores, i + 1, rest)

\* select_next_input stopping only at a remainder < 0.0
RECURSIVE WalkStrict(_, _, _)
WalkStrict(scores, i, selection) ==
    IF i > Len(scores) THEN 0
    ELSE LET rest == RSub(selection, scores[i])
         IN IF RLess(rest, RZero) THEN i ELSE WalkStrict(scores, i + 1, rest)

select_next_input_Strict(m, draw) ==
    LET m1     == [m EXCEPT !.selection_counter = @ + 1]
        scores == Scores(m1.entries)
        total  == TotalScore(scores)
        idx    == WalkStrict(scores, 1, RMul(draw, total))
    IN IF Len(m1.entries) = 0 THEN [mgr |-> m1, result |-> NoEntry]
       ELSE IF RLeq(total, RZero) THEN [mgr |-> m1, result |-> NoEntry]
       ELSE IF idx = 0 THEN [mgr |-> m1, result |-> NoEntry]
       ELSE LET m2 == [m1 EXCEPT !.entries[idx].times_used = @ + 1]
            IN [mgr |-> m2, result |-> m2.entries[idx]]

\* select_next_input with the draw rng.gen::<f64>() = draw
select_next_input(m, draw) ==
    LET m1     == [m EXCEPT !.selection_counter = @ + 1]
        scores == Scores(m1.entries)
        total  == TotalScore(scores)
        idx    == Walk(scores, 1, RMul(draw, total))
    IN IF Len(m1.entries) = 0 THEN [mgr |-> m1, result |-> NoEntry]
       ELSE IF RLeq(total, RZero) THEN [mgr |-> m1, result |-> NoEntry]
       ELSE IF idx = 0 THEN [mgr |-> m1, result |-> NoEntry]
       ELSE LET m2 == [m1 EXCEPT !.entries[idx].times_used = @ + 1]
            IN [mgr |-> m2, result |-> m2.entries[idx]]

\* the thread panics: no value is returned
Panic == [panic |-> TRUE]

\* rng.gen_range(0..len): the indices the draw can produce; for len = 0 the
\* range is empty and gen_range panics ("cannot sample empty range")
gen_range(len) == 0 .. (len - 1)

\* select_random_input when the draw is `index`: no test for an empty
\* corpus precedes the draw; the result is Some(clone of entries[index])
select_random_input(m, index) ==
    IF gen_range(Len(m.entries)) = {}
    THEN [mgr |-> m, result |-> Panic]
    ELSE [mgr |-> m, result |-> m.entries[index + 1]]

\* get_random_program_ir when the draw is `index`: the empty string for an
\* empty corpus, else the program_ir of entries[index]
get_random_program_ir(m, index) ==
    IF m.entries = << >> THEN Ir(0)
    ELSE m.entries[index + 1].program_ir

\* what BytecodeCollector::analyze_js_bytecode answers: Ok with is_novel = true,
\* Ok with is_novel = false, or Err
Analyses == {"novel", "known", "err"}

\* analyze_bytecode_novelty with the collector's answer `analysis`
analyze_bytecode_novelty(m, entry, analysis) ==
    IF m.bytecode_collector /\ analysis # "err"
    THEN [entry |-> [entry EXCEPT !.bytecode_analysis = TRUE,
                                  !.has_novel_bytecode = (analysis = "novel")],
          result |-> (analysis = "novel")]
    ELSE [entry |-> entry, result |-> FALSE]

\* should_keep_entry consulting the collector even with new coverage
should_keep_entry_AlwaysAnalyze(m, entry, has_new_coverage, analysis) ==
    analyze_bytecode_novelty(m, entry, analysis)

should_keep_entry(m, entry, has_new_coverage, analysis) ==
    IF has_new_coverage
    THEN [entry |-> entry, result |-> TRUE]
    ELSE analyze_bytecode_novelty(m, entry, analysis)

init_bytecode_collector(m) == [m EXCEPT !.bytecode_collector = TRUE]

SetMax(S) == CHOOSE x \in S : \A y \in S : y <= x
SetMin(S) == CHOOSE x \in S : \A y \in S : x <= y

RECURSIVE SumOver(_, _, _)
SumOver(entries, field, i) ==
    IF i > Len(entries) THEN 0
    ELSE entries[i][field] + SumOver(entries, field, i + 1)

\* size_distribution (min, max) and usage_distribution (total, max, average)
\* of the snapshot; the remaining statistics are functions of the same
\* entry fields
calculate_entry_statistics(m) ==
    IF m.entries = << >>
    THEN [min_size |-> 0, max_size |-> 0, total_usage |-> 0, max_usage |-> 0,
          avg_usage |-> RZero]
    ELSE LET sizes  == {JsLen(m.entries[i].js_code) : i \in DOMAIN m.entries}
             usages == {m.entries[i].times_used : i \in DOMAIN m.entries}
             total  == SumOver(m.entries, "times_used", 1)
         IN [min_size |-> SetMin(sizes), max_size |-> SetMax(sizes),
             total_usage |-> total, max_usage |-> SetMax(usages),
             avg_usage |-> Norm(total, Len(m.entries))]

\* the snapshot dump_stats_to_json writes when the clock reads `now` (whole
\* seconds)
dump_stats_to_json(m, now) ==
    [ timestamp |-> now,
      worker_id |-> m.worker_id,
      selection_count |-> m.selection_counter,
      corpus_stats |->
          [ total_entries |-> Len(m.entries),
            total_coverage |-> SumOver(m.entries, "coverage_found", 1),
            unique_edges |-> Cardinality(DOMAIN m.total_coverage),
            time_since_last_coverage |-> now - m.last_new_coverage,
            total_mutations |-> m.total_mutations,
            successful_mutations |-> m.successful_mutations,
            success_rate |-> IF m.total_mutations > 0
                             THEN Norm(m.successful_mutations, m.total_mutations)
                             ELSE RZero ],
      entry_statistics |-> calculate_entry_statistics(m) ]

(***************************************************************************)
(* Coverage adapter and edge-set helpers (coverage.rs).  A replica's       *)
(* virgin bitmap is represented by the set of edges it has marked seen.    *)
(***************************************************************************)
Edges == 1 .. NumEdges

\* PROFILE environment variable; "v8" when unset
PROFILE == "v8"

\* std::env::var("PROFILE").unwrap_or_else(|_| "v8".to_string())
profile_or_default(value) == IF value = "unset" THEN "v8" ELSE value

\* get_result_code treating jsc as it treats gecko
get_result_code_JscAsGecko(result_code, profile) ==
    IF result_code = 0 THEN "Success"
    ELSE IF result_code = 65536 THEN "Timeout"
    ELSE IF profile = "v8"
         THEN (IF result_code \in {5, 6, 11} THEN "Crash" ELSE "Error")
    ELSE IF profile \in {"gecko", "jsc"} /\ result_code = 256 THEN "Crash"
    ELSE "Error"

get_result_code(result_code, profile) ==
    IF result_code = 0 THEN "Success"
    ELSE IF result_code = 65536 THEN "Timeout"
    ELSE IF profile = "v8"
         THEN (IF result_code \in {5, 6, 11} THEN "Crash" ELSE "Error")
    ELSE IF profile = "gecko" /\ result_code = 256 THEN "Crash"
    ELSE IF profile = "jsc" /\ result_code \in {256, 6, 11} THEN "Crash"
    ELSE "Error"

\* cov_evaluate: the edges of the last execution that the replica had not
\* seen are reported and become seen
cov_evaluate(seenEdges, hit) ==
    [new_edges |-> hit \ seenEdges, seen |-> seenEdges \cup hit]

\* the pair below evaluated against the union of all bitmaps
execute_and_evaluate_Merged(bitmaps, worker_id, hit) ==
    cov_evaluate(UNION {bitmaps[p] : p \in DOMAIN bitmaps}, hit)

\* execute_script(.., worker_id) followed by cov_evaluate(worker_id, ..):
\* the execution hits `hit` and is evaluated in the bitmap of replica
\* worker_id
execute_and_evaluate(bitmaps, worker_id, hit) ==
    cov_evaluate(bitmaps[worker_id], hit)

\* reset_edge_set clearing nothing
reset_edge_set_Nothing(seenEdges, edge_set) == seenEdges

\* reset_edge_set: cov_clear_edge_data for every edge of edge_set
reset_edge_set(seenEdges, edge_set) == seenEdges \ edge_set

\* mark_edge_set marking nothing
mark_edge_set_Nothing(seenEdges, edge_set) == seenEdges

\* mark_edge_set: cov_set_edge_data for every edge of edge_set
mark_edge_set(seenEdges, edge_set) == seenEdges \cup edge_set

\* An EdgeSet is the sequence edge_indices[0 .. count); the adapter lists
\* the edges it reports in ascending order
RECURSIVE EdgeSetOf(_)
EdgeSetOf(S) ==
    IF S = {} THEN << >>
    ELSE LET m == CHOOSE x \in S : \A y \in S : x <= y
         IN << m >> \o EdgeSetOf(S \ {m})

Elems(edge_set) == {edge_set[i] : i \in DOMAIN edge_set}

\* common_subset testing membership in set1 against its first element only
common_subset_FirstOnly(set1, set2) ==
    LET in1(idx) == set1 # << >> /\ idx = set1[1]
    IN SelectSeq(set2, in1)

\* common_subset(set1, set2): the elements of set2, in the order and with
\* the repetitions of set2, that occur in set1
common_subset(set1, set2) ==
    LET in1(idx) == idx \in Elems(set1)
    IN SelectSeq(set2, in1)

\* the loop `for _ in 0..5` of extract_testcase_coverage
ExtractRuns == 5

\* extract_testcase_coverage from iteration i on
RECURSIVE ExtractFrom(_, _, _, _, _)
ExtractFrom(edges, seenEdges, runs, i, last_common_len) ==
    IF i > ExtractRuns
    THEN [edges |-> edges, executed |-> ExtractRuns, seen |-> seenEdges]
    ELSE LET ev        == cov_evaluate(seenEdges, runs[i].edges)
             new_edges == EdgeSetOf(ev.new_edges)
             seen1     == reset_edge_set(ev.seen, Elems(new_edges))
             common    == IF Len(edges) > 0 /\ Len(new_edges) > 0
                          THEN common_subset(edges, new_edges)
                          ELSE << >>
         IN IF common # << >>
            THEN IF last_common_len = Len(common)
                 THEN [edges |-> edges, executed |-> i, seen |-> seen1]
                 ELSE ExtractFrom(common, seen1, runs, i + 1, Len(common))
            ELSE ExtractFrom(edges, seen1, runs, i + 1, last_common_len)

extract_testcase_coverage(mutated_edges, seenEdges, runs) ==
    ExtractFrom(mutated_edges, seenEdges, runs, 1, 0)

\* `found_edges.len() as f32 / edges.count as f32 > 0.8`: 0/0 is NaN and
\* compares false; for count below 2^22 the f32 quotient exceeds the f32
\* literal 0.8 exactly when found/count > 4/5
ExceedsThreshold(found, count) ==
    count > 0 /\ 5 * found > 4 * count

\* the loop `for i in 0..5`
MaintainRuns == 5

\* maintain_coverage_with_mutated_edges from iteration i on; runs[i] is the
\* i-th execution (its exit code and the edges it hit)
RECURSIVE MaintainFrom(_, _, _, _, _)
MaintainFrom(edges, seenEdges, runs, i, is_new_coverage) ==
    IF i > MaintainRuns
    THEN [maintained |-> FALSE, is_new_coverage |-> is_new_coverage,
          executed |-> MaintainRuns, seen |-> seenEdges]
    ELSE LET ev        == cov_evaluate(seenEdges, runs[i].edges)
             new_edges == EdgeSetOf(ev.new_edges)
             seen1     == reset_edge_set(ev.seen, Elems(new_edges))
             rc        == get_result_code(runs[i].code, PROFILE)
             is_found  == \E a \in DOMAIN new_edges : \E b \in DOMAIN edges :
                              edges[b] = new_edges[a]
             new1      == \/ is_new_coverage
                          \/ rc = "Crash"
                          \/ /\ rc = "Success"
                             /\ (Len(new_edges) > Len(edges) \/ ~is_found)
             found_edges == {a \in DOMAIN edges :
                                \E b \in DOMAIN new_edges : new_edges[b] = edges[a]}
         IN IF ExceedsThreshold(Cardinality(found_edges), Len(edges))
            THEN [maintained |-> TRUE, is_new_coverage |-> new1,
                  executed |-> i, seen |-> seen1]
            ELSE MaintainFrom(edges, seen1, runs, i + 1, new1)

maintain_coverage_with_mutated_edges(edges, seenEdges, runs) ==
    MaintainFrom(edges, seenEdges, runs, 1, FALSE)

(***************************************************************************)
(* State.                                                                  *)
(***************************************************************************)
VARIABLES
    \* SpecCorpus: the manager under test, the last call (its arguments, the
    \* manager before it and what it returned), and the number of calls made;
    \* SpecCoverage: ret is the call made and what it returned, ops is 0 or 1
    mgr, ret, ops,
    \* Spec: position of each worker thread in Fuzzer::fuzz
    \*   "init" | "top" | "batch" | "drain" | "exited"
    wpc,
    \* Fuzzer.corpus of each process (workers 0..NUM_WORKERS-1, master NUM_WORKERS)
    corpus,
    \* edges marked seen in each replica's virgin bitmap
    seen,
    \* worker -> master and master -> worker channels
    toMaster, toWorker,
    \* Master::run: "running" | "done" (returned Ok) | "failed" (returned Err)
    mstatus,
    \* index of the channel the master polls next; NUM_WORKERS = end of a pass
    mpos,
    consecutive_errors,
    \* BYTECODE_COLLECTOR == "1"
    collectorEnv,
    \* the handler that ran last: its inputs, the WorkerStates it reported
    \* through update_stats, the sends and the writes it made
    last,
    \* number of init_reprl_safe calls made for each replica id
    replica_inits,
    \* the .json files present in <output_dir>/remote_corpus/
    remote_corpus,
    \* SpecGenerator: one call of GeneratorClient::generate_test_cases
    gen

corpvars == <<mgr, ret, ops>>
sysvars == <<wpc, corpus, seen, toMaster, toWorker, mstatus, mpos,
             consecutive_errors, collectorEnv, last, replica_inits,
             remote_corpus, gen>>
\* what the handlers of Spec other than Fuzzer::new leave alone
envvars == <<replica_inits, remote_corpus, gen>>
vars == <<corpvars, sysvars>>

(***************************************************************************)
(* Spec: the worker threads and the master thread (main.rs).               *)
(***************************************************************************)
Workers == 0 .. (NUM_WORKERS - 1)
MasterId == NUM_WORKERS
Procs == 0 .. NUM_WORKERS

\* raw results of execute_script: Success, Timeout, Crash and Error under v8
ExitCodes == {0, 65536, 5, 256}
\* wall-clock seconds an execution took, around the 5 s limit
ElapsedValues == {4, 5, 6}
\* one execution: its exit code, the edges it hit and the time it took
Runs == [code : ExitCodes, edges : SUBSET Edges, elapsed : ElapsedValues]

\* the directories in which fs::write currently fails (at most one)

WorkerNewCorpus(program_ir, js_code, pass) ==
    [type |-> "NewCorpus", program_ir |-> program_ir, js_code |-> js_code,
     pass |-> pass]
WorkerCrash(program_ir, js_code) ==
    [type |-> "Crash", program_ir |-> program_ir, js_code |-> js_code]
MasterNewCorpus(program_ir, js_code) ==
    [type |-> "NewCorpus", program_ir |-> program_ir, js_code |-> js_code]

FileWrite(dir, by, name, text, ok) ==
    [dir |-> dir, by |-> by, name |-> name, text |-> text, ok |-> ok]

save_interesting_input_JsOnly(by, test_code, original_program_ir, original_file, failing) ==
    [ok |-> "corpus" \notin failing,
     writes |-> << FileWrite("corpus", by, original_file, test_code,
                             "corpus" \notin failing) >>]

\* save_interesting_input: the source goes to corpus/, then the IR to
\* corpus_ir/; the first failing write ends the routine with Err
save_interesting_input(by, test_code, original_program_ir, original_file, failing) ==
    IF "corpus" \in failing
    THEN [ok |-> FALSE,
          writes |-> << FileWrite("corpus", by, original_file, test_code, FALSE) >>]
    ELSE [ok |-> "corpus_ir" \notin failing,
          writes |-> << FileWrite("corpus", by, original_file, test_code, TRUE),
                        FileWrite("corpus_ir", by, original_file, original_program_ir,
                                  "corpus_ir" \notin failing) >>]

save_crash_Skip(by, test_code, original_file, failing) ==
    [ok |-> TRUE, writes |-> << >>]

\* save_crash: the source goes to crashes/
save_crash(by, test_code, original_file, failing) ==
    [ok |-> "crashes" \notin failing,
     writes |-> << FileWrite("crashes", by, original_file, test_code,
                             "crashes" \notin failing) >>]

\* Sender::send on a channel whose receiver is alive or dropped
ChannelSend(queue, msg, receiverAlive) ==
    IF receiverAlive THEN Append(queue, msg) ELSE queue

update_entry_result(m, result, new_cov, entry_index) ==
    LET rc  == get_result_code(result, PROFILE)
        now == m.last_new_coverage + 1
    IN CASE rc = "Success" -> update_entry_success(m, entry_index, new_cov, now)
         [] rc = "Timeout" -> update_entry_timeout(m, entry_index)
         [] rc = "Error"   -> update_entry_error(m, entry_index)
         [] rc = "Crash"   -> update_entry_success(m, entry_index, new_cov, now)

MasterAlive == mstatus = "running"

NoLast == [op |-> "none", reported |-> << >>]

\* replica ids: one per process, and the one init_bytecode_collector brings
\* up for the collector of that process (100 + worker_id)
CollectorReplica(p) == 100 + p
ReplicaIds == Procs \cup {CollectorReplica(p) : p \in Procs}

\* init_reprl_safe(worker_id): init, spawn, coverage_finish_initialization
init_reprl_safe(inits, worker_id) == [inits EXCEPT ![worker_id] = @ + 1]

\* how Fuzzer::new can end: Ok, Err from create_dir_all of the output
\* directories, Err from reading the corpus directory
FuzzerNewOutcomes == {"ok", "err_output_dir", "err_corpus_dir"}

\* the replicas Fuzzer::new brings up: its own after the output directories
\* are created, the collector's when BYTECODE_COLLECTOR is 1
Fuzzer_new_inits(inits, worker_id, outcome, collector) ==
    IF outcome = "err_output_dir" THEN inits
    ELSE LET own == init_reprl_safe(inits, worker_id)
         IN IF outcome = "ok" /\ collector
            THEN init_reprl_safe(own, CollectorReplica(worker_id))
            ELSE own

\* Master::new: Fuzzer::new with id num_workers, then init_reprl_safe(num_workers)
Master_new_inits(inits, collector) ==
    init_reprl_safe(Fuzzer_new_inits(inits, MasterId, "ok", collector), MasterId)

\* the .json files of remote_corpus/: file n holds 50000 * n bytes of IR
RemoteFile(n) == [name |-> n, size |-> 50000 * n]
RemoteFiles == {RemoteFile(n) : n \in 1 .. NumRemote}

\* no call of generate_test_cases is in progress
GenNone == [pc |-> "none"]

Init ==
    /\ collectorEnv \in BOOLEAN
    /\ wpc = [w \in Workers |-> "init"]
    \* Fuzzer::new for the master: no seed is admitted (js_code is empty),
    \* the collector is attached when BYTECODE_COLLECTOR is 1
    /\ corpus = [p \in Procs |->
                   IF p = MasterId
                   THEN IF collectorEnv
                        THEN init_bytecode_collector(CorpusManager_new(p))
                        ELSE CorpusManager_new(p)
                   ELSE CorpusManager_new(p)]
    /\ seen = [p \in Procs |-> {}]
    /\ toMaster = [w \in Workers |-> << >>]
    /\ toWorker = [w \in Workers |-> << >>]
    /\ mstatus = "running"
    /\ mpos = 0
    /\ consecutive_errors = 0
    /\ last = NoLast
    /\ replica_inits = Master_new_inits([r \in ReplicaIds |-> 0], collectorEnv)
    \* Master::new has created remote_corpus/ or found it with the files
    \* an outside process has put there
    /\ remote_corpus \in SUBSET RemoteFiles
    /\ gen = GenNone
    /\ mgr = CorpusManager_new(0)
    /\ ret = [op |-> "new"]
    /\ ops = 0

\* the worker thread of main(): init_reprl_safe(worker_id), Fuzzer::new,
\* then set_corpus with the clone of the master's initial corpus; a failed
\* Fuzzer::new ends the thread
FuzzerNew(w, outcome) ==
    /\ wpc[w] = "init"
    /\ replica_inits' = Fuzzer_new_inits(init_reprl_safe(replica_inits, w),
                                         w, outcome, collectorEnv)
    /\ LET ok == outcome = "ok" IN
       /\ IF ok
          THEN /\ wpc' = [wpc EXCEPT ![w] = "top"]
               /\ corpus' = [corpus EXCEPT ![w] =
                      [(IF collectorEnv
                        THEN init_bytecode_collector(CorpusManager_new(MasterId))
                        ELSE CorpusManager_new(MasterId))
                       EXCEPT !.worker_id = w]]
          ELSE /\ wpc' = [wpc EXCEPT ![w] = "exited"]
               /\ UNCHANGED corpus
       /\ last' = [op |-> "Fuzzer::new", by |-> w, ok |-> ok,
                   reported |-> IF ok THEN << "Executing" >> ELSE << >>]
    /\ UNCHANGED <<seen, toMaster, toWorker, mstatus, mpos,
                   consecutive_errors, collectorEnv, corpvars,
                   remote_corpus, gen>>

\* top of the loop in Fuzzer::fuzz: with a generator client, request a
\* batch; Ok starts the iteration over the test cases, Err is logged and
\* the loop goes on to the master's messages, as it does when
\* generator_client is None ("absent")
GenOutcomes == {"absent", "ok", "err"}

FuzzGenerate(w, outcome) ==
    /\ wpc[w] = "top"
    /\ wpc' = [wpc EXCEPT ![w] = IF outcome = "ok" THEN "batch" ELSE "drain"]
    /\ last' = [op |-> "generate_test_cases", by |-> w, outcome |-> outcome,
                reported |-> IF outcome = "absent"
                             THEN << >> ELSE << "Generating" >>]
    /\ UNCHANGED <<corpus, seen, toMaster, toWorker, mstatus, mpos,
                   consecutive_errors, collectorEnv, corpvars, envvars>>

should_keep_NoveltyWithoutCollector(elapsed_time, is_master, has_new_coverage, collector_enabled, novel) ==
    IF elapsed_time < 5 /\ ~is_master
    THEN IF has_new_coverage THEN TRUE
         ELSE IF collector_enabled THEN novel ELSE TRUE
    ELSE FALSE

\* `let should_keep = ...` of run_single_input; `novel` is the answer of
\* CorpusManager::should_keep_entry(&mut new_entry, false)
should_keep(elapsed_time, is_master, has_new_coverage, collector_enabled, novel) ==
    IF elapsed_time < 5 /\ ~is_master
    THEN IF has_new_coverage THEN TRUE
         ELSE IF collector_enabled THEN novel ELSE FALSE
    ELSE FALSE

\* Fuzzer::run_single_input for the generated candidate c, whose execution
\* is `run`; `analysis` is the collector's answer and `failing` the
\* directories in which writes fail
RunSingleInput(w, c, run, analysis, failing) ==
    LET entry     == CorpusEntry_new(Ir(c), Js(c))
        rc        == get_result_code(run.code, PROFILE)
        ev        == execute_and_evaluate(seen, w, run.edges)
        new_cov   == Cardinality(ev.new_edges)
        file_name == <<w, new_cov>>
        has_new_coverage == new_cov > 0
        consulted == run.elapsed < 5 /\ w # MasterId /\ ~has_new_coverage
                     /\ collectorEnv
        keep      == should_keep_entry(corpus[w], entry, FALSE, analysis)
        kept      == should_keep(run.elapsed, w = MasterId, has_new_coverage,
                                 collectorEnv, keep.result)
        new_entry == IF consulted THEN keep.entry ELSE entry
        corpus1   ==
            IF kept /\ has_new_coverage
            THEN update_entry_result(corpus[w], run.code, new_cov, entry.index)
            ELSE IF kept
            THEN add_entry(corpus[w],
                     CorpusEntry_new(new_entry.program_ir, new_entry.js_code))
            ELSE corpus[w]
        msg1      ==
            IF has_new_coverage
            THEN WorkerNewCorpus(entry.program_ir, entry.js_code, "IPCGenerator")
            ELSE WorkerNewCorpus(new_entry.program_ir, new_entry.js_code,
                                 "BytecodeNovelty")
        save      ==
            IF has_new_coverage
            THEN save_interesting_input(w, entry.js_code, entry.program_ir,
                                        file_name, failing)
            ELSE save_interesting_input(w, new_entry.js_code, new_entry.program_ir,
                                        <<"bytecode", file_name>>, failing)
        crashed   == rc = "Crash"
        crashmsg  == WorkerCrash(entry.program_ir, entry.js_code)
        queue1    == IF kept
                     THEN ChannelSend(toMaster[w], msg1, MasterAlive)
                     ELSE toMaster[w]
        queue2    == IF crashed
                     THEN ChannelSend(queue1, crashmsg, MasterAlive)
                     ELSE queue1
        sends     == (IF kept
                      THEN << [msg |-> msg1, ok |-> MasterAlive] >> ELSE << >>)
                     \o (IF crashed
                         THEN << [msg |-> crashmsg, ok |-> MasterAlive] >>
                         ELSE << >>)
        reported  == << "Mutating", "Executing" >>
                     \o (IF kept /\ has_new_coverage
                         THEN << "Executing" >> ELSE << >>)
                     \o (IF crashed THEN << "SavingCrash" >> ELSE << >>)
        writes    == (IF kept /\ ~MasterAlive THEN save.writes ELSE << >>)
                     \o (IF crashed
                         THEN save_crash(w, entry.js_code, file_name, failing).writes
                         ELSE << >>)
    IN /\ wpc[w] = "batch"
       /\ IF JsLen(entry.js_code) = 0
          THEN /\ last' = [op |-> "run_single_input", by |-> w, c |-> c,
                           executed |-> FALSE, reported |-> << "Mutating" >>]
               /\ UNCHANGED <<corpus, seen, toMaster>>
          ELSE /\ Len(queue2) <= MaxQueue
               /\ Len(corpus1.entries) > Len(corpus[w].entries)
                      => Len(corpus1.entries) <= MaxCorpus
               /\ seen' = [seen EXCEPT ![w] = ev.seen]
               /\ corpus' = [corpus EXCEPT ![w] = corpus1]
               /\ toMaster' = [toMaster EXCEPT ![w] = queue2]
               /\ last' = [op |-> "run_single_input", by |-> w, c |-> c,
                           executed |-> TRUE, code |-> run.code,
                           elapsed |-> run.elapsed, new_cov |-> new_cov,
                           analysis |-> IF consulted THEN analysis ELSE "none",
                           kept |-> kept,
                           reported |-> reported, sends |-> sends,
                           writes |-> writes,
                           added |-> Len(corpus1.entries) - Len(corpus[w].entries)]
       /\ UNCHANGED <<wpc, toWorker, mstatus, mpos, consecutive_errors,
                      collectorEnv, corpvars, envvars>>

\* the batch of test cases is exhausted
FuzzBatchDone(w) ==
    /\ wpc[w] = "batch"
    /\ wpc' = [wpc EXCEPT ![w] = "drain"]
    /\ last' = [op |-> "batch_done", by |-> w, reported |-> << >>]
    /\ UNCHANGED <<corpus, seen, toMaster, toWorker, mstatus, mpos,
                   consecutive_errors, collectorEnv, corpvars, envvars>>

DrainAdmits_NoTimeLimit(elapsed_time, cov) ==
    cov > 0

\* the two tests of the drain loop that stand between a broadcast and
\* add_entry: `if elapsed_time > 5 s { continue }` and `if cov > 0`
DrainAdmits(elapsed_time, cov) ==
    ~(elapsed_time > 5) /\ cov > 0

\* one iteration of `while let Ok(msg) = self.from_master.try_recv()`
FuzzRecvBroadcast(w, run) ==
    LET msg   == Head(toWorker[w])
        slow  == run.elapsed > 5
        ev    == execute_and_evaluate(seen, w, run.edges)
        cov   == Cardinality(ev.new_edges)
        admit == DrainAdmits(run.elapsed, cov)
    IN /\ wpc[w] = "drain"
       /\ toWorker[w] # << >>
       /\ toWorker' = [toWorker EXCEPT ![w] = Tail(@)]
       /\ seen' = [seen EXCEPT ![w] = IF slow THEN @ ELSE ev.seen]
       /\ corpus' = [corpus EXCEPT ![w] =
              IF admit
              THEN add_entry(@, CorpusEntry_new(msg.program_ir, msg.js_code))
              ELSE @]
       /\ last' = [op |-> "recv_broadcast", by |-> w, msg |-> msg,
                   elapsed |-> run.elapsed, execs |-> 1,
                   reported |-> << "Executing" >>
                       \o (IF admit THEN << "CoverageCheck" >> ELSE << >>),
                   evaluated |-> ~slow,
                   cov |-> IF slow THEN 0 ELSE cov,
                   added |-> IF admit THEN 1 ELSE 0]
       /\ UNCHANGED <<wpc, toMaster, mstatus, mpos, consecutive_errors,
                      collectorEnv, corpvars, envvars>>

\* try_recv returns Err (Empty or Disconnected): the loop body ends
FuzzDrainEnd(w) ==
    /\ wpc[w] = "drain"
    /\ toWorker[w] = << >>
    /\ wpc' = [wpc EXCEPT ![w] = "top"]
    /\ last' = [op |-> "drain_end", by |-> w, reported |-> << "Idle" >>]
    /\ UNCHANGED <<corpus, seen, toMaster, toWorker, mstatus, mpos,
                   consecutive_errors, collectorEnv, corpvars, envvars>>

\* max_consecutive_errors of Master::run
max_consecutive_errors == 10

\* the `for tx in &self.to_workers` loop: one send per worker channel, a
\* failed send is logged and the loop goes on
RECURSIVE Broadcast(_, _, _)
Broadcast(queues, msg, v) ==
    IF v >= NUM_WORKERS THEN queues
    ELSE Broadcast([queues EXCEPT ![v] = ChannelSend(@, msg, wpc[v] # "exited")],
                   msg, v + 1)

BroadcastLog(msg) ==
    [v \in 1 .. NUM_WORKERS |->
        [to |-> v - 1, msg |-> msg, ok |-> wpc[v - 1] # "exited"]]

MasterAccepts_Any(new_cov) ==
    new_cov >= 0

\* `if new_cov > 0` of Master::run
MasterAccepts(new_cov) ==
    new_cov > 0

\* Master::run, try_recv on channel w returned Ok(WorkerMessage::NewCorpus)
MasterRecvNewCorpus(w, run, failing) ==
    LET msg        == Head(toMaster[w])
        program_ir == msg.program_ir
        js_code    == msg.js_code
        ev         == execute_and_evaluate(seen, MasterId, run.edges)
        new_edges  == ev.new_edges
        new_cov    == Cardinality(new_edges)
        \* the minimizer is not called: both candidate lists are Vec::new(),
        \* the loop over their zip does not run and is_maintained stays false
        minimized_js_list == << >>
        is_maintained == FALSE
        seen1      == reset_edge_set(ev.seen, new_edges)
        seen2      == mark_edge_set(seen1, new_edges)
        file_name  == <<MasterId, new_cov, msg.pass>>
        save       == save_interesting_input(MasterId, js_code, program_ir,
                                             file_name, failing)
        out        == MasterNewCorpus(program_ir, js_code)
        queues     == Broadcast(toWorker, out, 0)
    IN /\ MasterAlive
       /\ mpos = w
       /\ toMaster[w] # << >>
       /\ msg.type = "NewCorpus"
       /\ toMaster' = [toMaster EXCEPT ![w] = Tail(@)]
       /\ consecutive_errors' = 0
       /\ IF JsLen(js_code) = 0 \/ IrLen(program_ir) > 100 * 1024
          THEN /\ mpos' = w + 1
               /\ last' = [op |-> "master_new_corpus", from |-> w, msg |-> msg,
                           executed |-> FALSE, reported |-> << >>]
               /\ UNCHANGED <<seen, corpus, toWorker, mstatus>>
          ELSE IF ~MasterAccepts(new_cov)
          THEN /\ mpos' = w + 1
               /\ seen' = [seen EXCEPT ![MasterId] = ev.seen]
               /\ last' = [op |-> "master_new_corpus", from |-> w, msg |-> msg,
                           executed |-> TRUE, new_cov |-> new_cov,
                           reported |-> << "Executing", "CoverageCheck", "Idle" >>,
                           sends |-> << >>, writes |-> << >>, added |-> 0]
               /\ UNCHANGED <<corpus, toWorker, mstatus>>
          ELSE IF ~save.ok
          THEN \* save_interesting_input(..)? returns the error from run
               /\ mstatus' = "failed"
               /\ seen' = [seen EXCEPT ![MasterId] = seen2]
               /\ last' = [op |-> "master_new_corpus", from |-> w, msg |-> msg,
                           executed |-> TRUE, new_cov |-> new_cov,
                           reported |-> << "Executing", "CoverageCheck",
                                           "Minimizing", "Maintaining",
                                           "Generating" >>,
                           minimized_js_list |-> minimized_js_list,
                           is_maintained |-> is_maintained,
                           sends |-> << >>, writes |-> save.writes, added |-> 0]
               /\ UNCHANGED <<corpus, toWorker, mpos>>
          ELSE /\ \A v \in Workers : Len(queues[v]) <= MaxQueue
               /\ mpos' = w + 1
               /\ seen' = [seen EXCEPT ![MasterId] = seen2]
               /\ toWorker' = queues
               /\ corpus' = [corpus EXCEPT ![MasterId] =
                                 add_entry(@, CorpusEntry_new(program_ir, js_code))]
               /\ last' = [op |-> "master_new_corpus", from |-> w, msg |-> msg,
                           executed |-> TRUE, new_cov |-> new_cov,
                           reported |-> << "Executing", "CoverageCheck",
                                           "Minimizing", "Maintaining",
                                           "Generating", "Idle" >>,
                           minimized_js_list |-> minimized_js_list,
                           is_maintained |-> is_maintained,
                           sends |-> BroadcastLog(out), writes |-> save.writes,
                           added |-> 1]
               /\ UNCHANGED mstatus
       /\ UNCHANGED <<wpc, collectorEnv, corpvars, envvars>>

\* Master::run, try_recv on channel w returned Ok(WorkerMessage::Crash)
MasterRecvCrash(w, failing) ==
    LET msg  == Head(toMaster[w])
        save == save_crash(MasterId, msg.js_code, msg.program_ir, failing)
    IN /\ MasterAlive
       /\ mpos = w
       /\ toMaster[w] # << >>
       /\ msg.type = "Crash"
       /\ toMaster' = [toMaster EXCEPT ![w] = Tail(@)]
       /\ consecutive_errors' = 0
       /\ IF save.ok
          THEN mpos' = w + 1 /\ UNCHANGED mstatus
          ELSE mstatus' = "failed" /\ UNCHANGED mpos
       /\ last' = [op |-> "master_crash", from |-> w, msg |-> msg,
                   reported |-> << >>, writes |-> save.writes]
       /\ UNCHANGED <<wpc, corpus, seen, toWorker, collectorEnv,
                      corpvars, envvars>>

\* try_recv returned Err(Empty): the worker's sender is alive
MasterRecvEmpty(w) ==
    /\ MasterAlive
    /\ mpos = w
    /\ toMaster[w] = << >>
    /\ wpc[w] # "exited"
    /\ mpos' = w + 1
    /\ last' = [op |-> "master_empty", from |-> w, reported |-> << >>]
    /\ UNCHANGED <<wpc, corpus, seen, toMaster, toWorker, mstatus,
                   consecutive_errors, collectorEnv, corpvars, envvars>>

\* try_recv returned Err(Disconnected): the worker thread has ended
MasterRecvDisconnected(w) ==
    /\ MasterAlive
    /\ mpos = w
    /\ toMaster[w] = << >>
    /\ wpc[w] = "exited"
    /\ consecutive_errors' = consecutive_errors + 1
    /\ IF consecutive_errors + 1 >= max_consecutive_errors
       THEN mstatus' = "done" /\ UNCHANGED mpos
       ELSE mpos' = w + 1 /\ UNCHANGED mstatus
    /\ last' = [op |-> "master_disconnected", from |-> w, reported |-> << >>]
    /\ UNCHANGED <<wpc, corpus, seen, toMaster, toWorker,
                   collectorEnv, corpvars, envvars>>

\* entries.sort_by(size): the files in ascending order of size
RECURSIVE SortBySize(_)
SortBySize(files) ==
    IF files = {} THEN << >>
    ELSE LET f == CHOOSE x \in files : \A y \in files : x.size <= y.size
         IN << f >> \o SortBySize(files \ {f})

\* `let js_code = "".to_string()`: the source check_new_ast_files derives
\* from the IR it read is candidate 0's, the empty string
RemoteJs(file) == Js(0)

\* the loop `for entry in entries` of check_new_ast_files from position i
\* on: a file above 100 KB is skipped, a file whose js_code is empty is
\* skipped; the rest of the body (execution, save, broadcast, remove_file)
\* is reached by no file and is recorded here as processed and deleted
RECURSIVE ScanFrom(_, _)
ScanFrom(entries, i) ==
    IF i > Len(entries) THEN [processed |-> << >>, deleted |-> {}]
    ELSE LET rest == ScanFrom(entries, i + 1)
         IN IF entries[i].size > 100 * 1024 THEN rest
            ELSE IF JsLen(RemoteJs(entries[i])) = 0 THEN rest
            ELSE [processed |-> << entries[i] >> \o rest.processed,
                  deleted |-> {entries[i]} \cup rest.deleted]

check_new_ast_files(files) == ScanFrom(SortBySize(files), 1)

\* end of a polling pass: check_new_ast_files, then sleep; when
\* remote_corpus/ has been removed it is created again, and a failed
\* create_dir_all is returned from run
MasterScan(ok) ==
    LET scan == check_new_ast_files(remote_corpus)
    IN /\ MasterAlive
       /\ mpos = NUM_WORKERS
       /\ ~ok => remote_corpus = {}
       /\ IF ok
          THEN mpos' = 0 /\ UNCHANGED mstatus
          ELSE mstatus' = "failed" /\ UNCHANGED mpos
       /\ remote_corpus' = remote_corpus \ scan.deleted
       /\ last' = [op |-> "check_new_ast_files", ok |-> ok,
                   found |-> remote_corpus, processed |-> scan.processed,
                   reported |-> << >>]
       /\ UNCHANGED <<wpc, corpus, seen, toMaster, toWorker,
                      consecutive_errors, collectorEnv, corpvars,
                      replica_inits, gen>>

\* inputs that can change the outcome of run_single_input in this state
AnalysesFor(w, run) ==
    IF collectorEnv /\ run.elapsed < 5 /\ run.edges \subseteq seen[w]
    THEN Analyses ELSE {"err"}

FsFor(w, run) ==
    {{}} \cup {{d} : d \in
        (IF MasterAlive THEN {} ELSE {"corpus", "corpus_ir"})
        \cup (IF get_result_code(run.code, PROFILE) = "Crash"
              THEN {"crashes"} ELSE {})}

\* inputs that can change the outcome of the master's NewCorpus handler
MasterFsFor(run) ==
    IF run.edges \subseteq seen[MasterId]
    THEN {{}} ELSE {{}, {"corpus"}, {"corpus_ir"}}

Next ==
    \/ \E w \in Workers, outcome \in FuzzerNewOutcomes : FuzzerNew(w, outcome)
    \/ \E w \in Workers, outcome \in GenOutcomes : FuzzGenerate(w, outcome)
    \/ \E w \in Workers, c \in Cands, run \in Runs :
          \E a \in AnalysesFor(w, run), f \in FsFor(w, run) :
              RunSingleInput(w, c, run, a, f)
    \/ \E w \in Workers : FuzzBatchDone(w)
    \/ \E w \in Workers, run \in Runs : FuzzRecvBroadcast(w, run)
    \/ \E w \in Workers : FuzzDrainEnd(w)
    \/ \E w \in Workers, run \in Runs :
          \E f \in MasterFsFor(run) : MasterRecvNewCorpus(w, run, f)
    \/ \E w \in Workers, f \in {{}, {"crashes"}} : MasterRecvCrash(w, f)
    \/ \E w \in Workers : MasterRecvEmpty(w)
    \/ \E w \in Workers : MasterRecvDisconnected(w)
    \/ \E ok \in BOOLEAN : MasterScan(ok)

Spec == Init /\ [][Next]_vars

\* the steps of the thread of worker w (Fuzzer::new, then Fuzzer::fuzz)
WorkerNext(w) ==
    \/ \E outcome \in FuzzerNewOutcomes : FuzzerNew(w, outcome)
    \/ \E outcome \in GenOutcomes : FuzzGenerate(w, outcome)
    \/ \E c \in Cands, run \in Runs :
          \E a \in AnalysesFor(w, run), f \in FsFor(w, run) :
              RunSingleInput(w, c, run, a, f)
    \/ FuzzBatchDone(w)
    \/ \E run \in Runs : FuzzRecvBroadcast(w, run)
    \/ FuzzDrainEnd(w)

\* the steps of the master thread (Master::run)
MasterNext ==
    \/ \E w \in Workers, run \in Runs :
          \E f \in MasterFsFor(run) : MasterRecvNewCorpus(w, run, f)
    \/ \E w \in Workers, f \in {{}, {"crashes"}} : MasterRecvCrash(w, f)
    \/ \E w \in Workers : MasterRecvEmpty(w)
    \/ \E w \in Workers : MasterRecvDisconnected(w)
    \/ \E ok \in BOOLEAN : MasterScan(ok)

\* the start with BYTECODE_COLLECTOR unset and remote_corpus/ empty
InitLive == Init /\ ~collectorEnv /\ remote_corpus = {}

\* Spec with every thread scheduled again and again: a thread that can take
\* a step eventually takes one, and a batch of test cases (at most 10, a
\* Vec) comes to its end
SpecLive ==
    /\ InitLive
    /\ [][Next]_vars
    /\ \A w \in Workers : WF_vars(WorkerNext(w)) /\ WF_vars(FuzzBatchDone(w))
    /\ WF_vars(MasterNext)

(***************************************************************************)
(* SpecCorpus: a CorpusManager created by CorpusManager::new and driven    *)
(* through its public operations.                                          *)
(***************************************************************************)
Indices == 0 .. MaxEntries
\* new_coverage values passed to update_entry_success
NewCovValues == {0, 1, 15}
\* the draws rng.gen::<f64>() can produce: k / RngDen in [0, 1)
Draws == {Norm(k, RngDen) : k \in 0 .. (RngDen - 1)}

InitCorpus ==
    /\ mgr = CorpusManager_new(0)
    /\ ret = [op |-> "new"]
    /\ ops = 0
    /\ collectorEnv = FALSE
    /\ wpc = [w \in Workers |-> "init"]
    /\ corpus = [p \in Procs |-> CorpusManager_new(p)]
    /\ seen = [p \in Procs |-> {}]
    /\ toMaster = [w \in Workers |-> << >>]
    /\ toWorker = [w \in Workers |-> << >>]
    /\ mstatus = "running"
    /\ mpos = 0
    /\ consecutive_errors = 0
    /\ last = NoLast
    /\ replica_inits = [r \in ReplicaIds |-> 0]
    /\ remote_corpus = {}
    /\ gen = GenNone

CallAddEntry(c) ==
    /\ ops < MaxOps
    /\ Len(mgr.entries) < MaxEntries
    /\ mgr' = add_entry(mgr, CorpusEntry_new(Ir(c), Js(c)))
    /\ ret' = [op |-> "add_entry", pre |-> mgr, c |-> c,
               entry |-> CorpusEntry_new(Ir(c), Js(c))]
    /\ ops' = ops + 1
    /\ UNCHANGED sysvars

\* add_entry with the clone of an entry of the corpus (what
\* select_next_input hands out), which carries that entry's counters
CallAddEntryClone(pos) ==
    /\ ops < MaxOps
    /\ Len(mgr.entries) < MaxEntries
    /\ pos \in 1 .. Len(mgr.entries)
    /\ mgr' = add_entry(mgr, mgr.entries[pos])
    /\ ret' = [op |-> "add_entry", pre |-> mgr, c |-> mgr.entries[pos].js_code,
               entry |-> mgr.entries[pos]]
    /\ ops' = ops + 1
    /\ UNCHANGED sysvars

CallUpdateEntrySuccess(index, new_cov) ==
    /\ ops < MaxOps
    /\ mgr' = update_entry_success(mgr, index, new_cov, ops + 1)
    /\ ret' = [op |-> "update_entry_success", pre |-> mgr, index |-> index,
               new_cov |-> new_cov]
    /\ ops' = ops + 1
    /\ UNCHANGED sysvars

CallUpdateEntryError(index) ==
    /\ ops < MaxOps
    /\ mgr' = update_entry_error(mgr, index)
    /\ ret' = [op |-> "update_entry_error", pre |-> mgr, index |-> index]
    /\ ops' = ops + 1
    /\ UNCHANGED sysvars

CallUpdateEntryTimeout(index) ==
    /\ ops < MaxOps
    /\ mgr' = update_entry_timeout(mgr, index)
    /\ ret' = [op |-> "update_entry_timeout", pre |-> mgr, index |-> index]
    /\ ops' = ops + 1
    /\ UNCHANGED sysvars

CallDeleteEntry(index) ==
    /\ ops < MaxOps
    /\ mgr' = delete_entry(mgr, index)
    /\ ret' = [op |-> "delete_entry", pre |-> mgr, index |-> index]
    /\ ops' = ops + 1
    /\ UNCHANGED sysvars

CallSelectNextInput(draw) ==
    /\ ops < MaxOps
    /\ LET r == select_next_input(mgr, draw)
       IN /\ mgr' = r.mgr
          /\ ret' = [op |-> "select_next_input", pre |-> mgr, draw |-> draw,
                     out |-> r.result]
    /\ ops' = ops + 1
    /\ UNCHANGED sysvars

CallShouldKeepEntry(c, has_new_coverage, analysis) ==
    /\ ops < MaxOps
    /\ LET r == should_keep_entry(mgr, CorpusEntry_new(Ir(c), Js(c)),
                                  has_new_coverage, analysis)
       IN ret' = [op |-> "should_keep_entry", pre |-> mgr,
                  has_new_coverage |-> has_new_coverage,
                  analysis |-> analysis, entry |-> r.entry, out |-> r.result]
    /\ mgr' = mgr
    /\ ops' = ops + 1
    /\ UNCHANGED sysvars

\* a panic unwinds the calling thread: no later call is made
CallSelectRandomInput(index) ==
    /\ ops < MaxOps
    /\ index \in gen_range(Len(mgr.entries)) \/ mgr.entries = << >>
    /\ LET r == select_random_input(mgr, index)
       IN /\ mgr' = r.mgr
          /\ ret' = [op |-> "select_random_input", pre |-> mgr,
                     out |-> r.result]
          /\ ops' = IF r.result = Panic THEN MaxOps ELSE ops + 1
    /\ UNCHANGED sysvars

CallGetRandomProgramIr(index) ==
    /\ ops < MaxOps
    /\ index \in gen_range(Len(mgr.entries)) \/ mgr.entries = << >>
    /\ ret' = [op |-> "get_random_program_ir", pre |-> mgr,
               out |-> get_random_program_ir(mgr, index)]
    /\ ops' = ops + 1
    /\ UNCHANGED <<mgr, sysvars>>

CallInitBytecodeCollector ==
    /\ ops < MaxOps
    /\ ~mgr.bytecode_collector
    /\ mgr' = init_bytecode_collector(mgr)
    /\ ret' = [op |-> "init_bytecode_collector", pre |-> mgr]
    /\ ops' = ops + 1
    /\ UNCHANGED sysvars

\* the seconds that pass between two dumps
DumpGaps == {0, 1}

\* dump_stats_to_json called twice with no corpus operation in between, the
\* second call `gap` seconds after the first
CallDumpStatsTwice(gap) ==
    /\ ops < MaxOps
    /\ ret' = [op |-> "dump_stats_to_json", pre |-> mgr, gap |-> gap,
               first |-> dump_stats_to_json(mgr, ops + 1),
               second |-> dump_stats_to_json(mgr, ops + 1 + gap)]
    /\ ops' = ops + 1
    /\ UNCHANGED <<mgr, sysvars>>

NextCorpus ==
    \/ \E c \in Cands : CallAddEntry(c)
    \/ \E pos \in 1 .. MaxEntries : CallAddEntryClone(pos)
    \/ \E i \in Indices, n \in NewCovValues : CallUpdateEntrySuccess(i, n)
    \/ \E i \in Indices : CallUpdateEntryError(i)
    \/ \E i \in Indices : CallUpdateEntryTimeout(i)
    \/ \E i \in Indices : CallDeleteEntry(i)
    \/ \E d \in Draws : CallSelectNextInput(d)
    \/ \E c \in Cands, h \in BOOLEAN, a \in Analyses : CallShouldKeepEntry(c, h, a)
    \/ CallInitBytecodeCollector
    \/ \E gap \in DumpGaps : CallDumpStatsTwice(gap)
    \/ \E index \in 0 .. (MaxEntries - 1) : CallSelectRandomInput(index)
    \/ \E index \in 0 .. (MaxEntries - 1) : CallGetRandomProgramIr(index)

SpecCorpus == InitCorpus /\ [][NextCorpus]_vars

(***************************************************************************)
(* SpecCoverage: one call of a routine of coverage.rs on the replica of    *)
(* worker 0.  `ret` holds the call, `ops` the number of calls made.        *)
(***************************************************************************)
CovEdges == 1 .. NumCovEdges
\* the edges 1..k
UpTo(k) == 1 .. k
\* edge sets an execution hits and expected edge sets: none, all but the
\* last edge, all
CovSizes == {0, NumCovEdges - 1, NumCovEdges}
CovHitSets == {UpTo(k) : k \in CovSizes}
\* the re-executions: Success with each hit set, Crash and Error (under
\* v8) with every edge hit
CovRuns == {r \in [code : {0, 5, 256}, edges : CovHitSets] :
               r.code = 0 \/ r.edges = CovEdges}

covframe == <<mgr, wpc, corpus, toMaster, toWorker, mstatus, mpos,
              consecutive_errors, collectorEnv, last, replica_inits,
              remote_corpus, gen>>

InitCoverage ==
    /\ mgr = CorpusManager_new(0)
    /\ ret = [op |-> "new"]
    /\ ops = 0
    /\ collectorEnv = FALSE
    /\ wpc = [w \in Workers |-> "init"]
    /\ corpus = [p \in Procs |-> CorpusManager_new(p)]
    \* the replica of worker 0 has seen nothing, or the last edge
    /\ \E S \in {{}, {NumCovEdges}} :
           seen = [p \in Procs |-> IF p = 0 THEN S ELSE {}]
    /\ toMaster = [w \in Workers |-> << >>]
    /\ toWorker = [w \in Workers |-> << >>]
    /\ mstatus = "running"
    /\ mpos = 0
    /\ consecutive_errors = 0
    /\ last = NoLast
    /\ replica_inits = [r \in ReplicaIds |-> 0]
    /\ remote_corpus = {}
    /\ gen = GenNone

CallMaintainCoverage(edges, runs) ==
    /\ ops = 0
    /\ LET r == maintain_coverage_with_mutated_edges(edges, seen[0], runs)
       IN /\ ret' = [op |-> "maintain_coverage_with_mutated_edges",
                     edges |-> edges, runs |-> runs, pre |-> seen[0],
                     maintained |-> r.maintained,
                     is_new_coverage |-> r.is_new_coverage,
                     executed |-> r.executed]
          /\ seen' = [seen EXCEPT ![0] = r.seen]
    /\ ops' = 1
    /\ UNCHANGED covframe

CallExtractCoverage(mutated_edges, runs) ==
    /\ ops = 0
    /\ LET r == extract_testcase_coverage(mutated_edges, seen[0], runs)
       IN /\ ret' = [op |-> "extract_testcase_coverage",
                     edges |-> mutated_edges, runs |-> runs, pre |-> seen[0],
                     out |-> r.edges, executed |-> r.executed]
          /\ seen' = [seen EXCEPT ![0] = r.seen]
    /\ ops' = 1
    /\ UNCHANGED covframe

\* values of the PROFILE environment variable
ProfileValues == {"unset", "v8", "gecko", "jsc", "node"}
\* raw results of execute_script: the codes of the profile table and their
\* neighbours
ResultCodes == (-1 .. 12) \cup {255, 256, 257, 65535, 65536, 65537}

CallGetResultCode(result_code, value) ==
    /\ ops = 0
    /\ ret' = [op |-> "get_result_code", result_code |-> result_code,
               PROFILE |-> value,
               out |-> get_result_code(result_code, profile_or_default(value))]
    /\ ops' = 1
    /\ UNCHANGED <<seen, covframe>>

\* slices of edge indices: any order, repetitions allowed
Slices == UNION {[1 .. n -> UpTo(MaxSlice)] : n \in 0 .. MaxSlice}

CallCommonSubset(set1, set2) ==
    /\ ops = 0
    /\ ret' = [op |-> "common_subset", a |-> set1, b |-> set2,
               out |-> common_subset(set1, set2),
               swapped |-> common_subset(set2, set1),
               self |-> common_subset(set1, set1)]
    /\ ops' = 1
    /\ UNCHANGED <<seen, covframe>>

\* number of (ir, source) candidates a minimizer answer holds, and the
\* longest text of one
MaxMinimized == 2
MaxText == 2

\* a minimized text: the candidate it belongs to and its length
MinimizedText(of, len) == [of |-> of, len |-> len]

\* the answers of the minimizer: candidate k of an answer is the pair
\* (minimized_ir_list[k], minimized_js_list[k])
MinimizedLists ==
    UNION {[1 .. n -> 0 .. MaxText] : n \in 0 .. MaxMinimized}

\* list.sort_by_key(|s| s.len()): stable, ascending in length
RECURSIVE sort_by_key(_)
sort_by_key(list) ==
    IF list = << >> THEN << >>
    ELSE LET i == CHOOSE x \in DOMAIN list :
                      \A y \in DOMAIN list :
                          \/ list[x].len < list[y].len
                          \/ list[x].len = list[y].len /\ x <= y
             rest == [k \in 1 .. Len(list) - 1 |->
                          IF k < i THEN list[k] ELSE list[k + 1]]
         IN << list[i] >> \o sort_by_key(rest)

\* the loop of Master::run over minimized_ir_list.iter().zip(
\* minimized_js_list.iter()) from pair i on: an empty source is skipped, the
\* first source that maintains the coverage is adopted with the IR zipped to
\* it, and the loop ends there
RECURSIVE adopt_minimized(_, _, _, _)
adopt_minimized(ir_list, js_list, maintains, i) ==
    IF i > Len(ir_list) \/ i > Len(js_list)
    THEN [is_maintained |-> FALSE, ir |-> MinimizedText(0, 0),
          js |-> MinimizedText(0, 0)]
    ELSE IF js_list[i].len = 0
    THEN adopt_minimized(ir_list, js_list, maintains, i + 1)
    ELSE IF js_list[i].of \in maintains
    THEN [is_maintained |-> TRUE, ir |-> ir_list[i], js |-> js_list[i]]
    ELSE adopt_minimized(ir_list, js_list, maintains, i + 1)

\* Master::run, lines 1240-1264, on a minimizer answer of n candidates with
\* IR lengths irs and source lengths jss: both lists are sorted, then
\* walked in step
CallAdoptMinimized(irs, jss, maintains) ==
    /\ ops = 0
    /\ LET minimized_ir_list ==
               sort_by_key([k \in DOMAIN irs |-> MinimizedText(k, irs[k])])
           minimized_js_list ==
               sort_by_key([k \in DOMAIN jss |-> MinimizedText(k, jss[k])])
           final == adopt_minimized(minimized_ir_list, minimized_js_list,
                                    maintains, 1)
       IN ret' = [op |-> "adopt_minimized", irs |-> irs, jss |-> jss,
                  is_maintained |-> final.is_maintained,
                  minimized_ir_final |-> final.ir,
                  minimized_js_final |-> final.js]
    /\ ops' = 1
    /\ UNCHANGED <<seen, covframe>>

NextCoverage ==
    \/ /\ ops = 0
       /\ \E irs \in MinimizedLists, jss \in MinimizedLists,
             maintains \in SUBSET (1 .. MaxMinimized) :
              /\ Len(irs) = Len(jss)
              /\ CallAdoptMinimized(irs, jss, maintains)
    \/ /\ ops = 0
       /\ \E set1 \in Slices, set2 \in Slices : CallCommonSubset(set1, set2)
    \/ /\ ops = 0
       /\ \E result_code \in ResultCodes, value \in ProfileValues :
              CallGetResultCode(result_code, value)
    \/ /\ ops = 0
       /\ \E k \in CovSizes, runs \in [1 .. ExtractRuns -> CovRuns] :
              CallExtractCoverage(EdgeSetOf(UpTo(k)), runs)
    \/ /\ ops = 0
       /\ \E k \in CovSizes, runs \in [1 .. MaintainRuns -> CovRuns] :
              CallMaintainCoverage(EdgeSetOf(UpTo(k)), runs)

SpecCoverage == InitCoverage /\ [][NextCoverage]_vars

\* the re-executions the routine made
RunsMade == 1 .. ret.executed

\* C36: when extract_testcase_coverage or maintain_coverage_with_mutated_edges
\* returns, the replica has seen exactly the edges it had seen before the
\* call
C36_VerifierRestoresBitmap ==
    ret.op \in {"extract_testcase_coverage",
                "maintain_coverage_with_mutated_edges"}
        => seen[0] = ret.pre

\* a verification of several executions on a replica that had seen an edge,
\* in which executions hit edges the replica had not seen and the edge it
\* had seen, and the replica is back to that one edge
C36_Witness ==
    /\ ret.op = "maintain_coverage_with_mutated_edges"
    /\ ret.executed >= 2
    /\ ret.pre = {NumCovEdges}
    /\ \A i \in RunsMade : ret.runs[i].edges = CovEdges
    /\ seen[0] = ret.pre

MaxMsgs == 3
\* number of generate_test_cases calls made on one client
MaxCalls == 2
\* Duration::from_secs(20) in periods of recv_timeout's 100 ms
timeout_duration == 200

InProgress == "Generation already in progress"

GenMessage(msg_type, data) == [msg_type |-> msg_type, data |-> data]

\* the lines the generator can answer with: a test case that deserializes
\* into TestCase or not, the end of the batch, the two kinds of error, and
\* anything else (progress)
GenMessages ==
    {GenMessage("test_case", d) : d \in {"valid", "malformed"}}
        \cup {GenMessage("generate_complete", "null"),
              GenMessage("error", InProgress),
              GenMessage("error", "other"),
              GenMessage("progress", "null")}

Ok(test_cases) == [ok |-> TRUE, test_cases |-> test_cases, err |-> "none"]
Err(e) == [ok |-> FALSE, test_cases |-> << >>, err |-> e]

\* the timeout test that lets exactly 20 s count as expired
TimedOut_AtTwenty(elapsed) == elapsed >= timeout_duration

\* start_time.elapsed() > timeout_duration
TimedOut(elapsed) == elapsed > timeout_duration

\* an error response that ends the call
Aborts(msg) == msg.msg_type = "error" /\ msg.data # InProgress

genframe == <<corpvars, wpc, corpus, seen, toMaster, toWorker, mstatus, mpos,
              consecutive_errors, collectorEnv, last, replica_inits,
              remote_corpus>>

InitGenerator ==
    /\ mgr = CorpusManager_new(0)
    /\ ret = [op |-> "new"]
    /\ ops = 0
    /\ collectorEnv = FALSE
    /\ wpc = [w \in Workers |-> "init"]
    /\ corpus = [p \in Procs |-> CorpusManager_new(p)]
    /\ seen = [p \in Procs |-> {}]
    /\ toMaster = [w \in Workers |-> << >>]
    /\ toWorker = [w \in Workers |-> << >>]
    /\ mstatus = "running"
    /\ mpos = 0
    /\ consecutive_errors = 0
    /\ last = NoLast
    /\ replica_inits = [r \in ReplicaIds |-> 0]
    /\ remote_corpus = {}
    \* pc: "stop" | "generate" | "loop" | "returned"; sent: the messages
    \* written to the generator's stdin; elapsed: start_time.elapsed();
    \* received: every message recv_timeout has returned, in order;
    \* polled_at: the elapsed time at which the last poll began; call: the
    \* number of this call on the client; origin: for every received message
    \* the call whose generate request the generator answered with it;
    \* abandoned: an earlier call wrote its request and returned without
    \* generate_complete
    /\ gen = [pc |-> "stop", sent |-> << >>, elapsed |-> 0,
              test_cases |-> << >>, received |-> << >>, polled_at |-> 0,
              result |-> Err("none"), call |-> 1, origin |-> << >>,
              abandoned |-> FALSE]

\* writeln!(stdin, stop)?; flush()? (generator_client.rs:108-113)
GenSendStop(ok) ==
    /\ gen.pc = "stop"
    /\ gen' = IF ok
              THEN [gen EXCEPT !.pc = "generate", !.sent = Append(@, "stop")]
              ELSE [gen EXCEPT !.pc = "returned", !.result = Err("io")]
    /\ UNCHANGED genframe

\* sleep(50 ms); writeln!(stdin, generate)?; flush()?; start_time = now
\* (generator_client.rs:116-141)
GenSendGenerate(ok) ==
    /\ gen.pc = "generate"
    /\ gen' = IF ok
              THEN [gen EXCEPT !.pc = "loop", !.sent = Append(@, "generate"),
                               !.elapsed = 0]
              ELSE [gen EXCEPT !.pc = "returned", !.result = Err("io")]
    /\ UNCHANGED genframe

\* the loop finds the time expired (generator_client.rs:143-146)
GenTimeout ==
    /\ gen.pc = "loop"
    /\ TimedOut(gen.elapsed)
    /\ gen' = [gen EXCEPT !.pc = "returned", !.result = Err("Generator timeout")]
    /\ UNCHANGED genframe

\* recv_timeout(100 ms) returns Ok(response) after `wait` periods (0: the
\* message was there already) (generator_client.rs:148-170).  rx is the
\* client's one channel, fed by the reader thread for as long as the
\* generator writes and read nowhere else: a message the generator wrote
\* for an abandoned request (from < gen.call) is still delivered.
GenPollMessage(msg, wait, from) ==
    /\ gen.pc = "loop"
    /\ ~TimedOut(gen.elapsed)
    /\ Len(gen.received) < MaxMsgs
    /\ from < gen.call => gen.abandoned
    /\ LET got == [gen EXCEPT !.received = Append(@, msg),
                              !.origin = Append(@, from),
                              !.polled_at = gen.elapsed,
                              !.elapsed = @ + wait]
       IN gen' =
           IF msg.msg_type = "test_case"
           THEN IF msg.data = "valid"
                THEN [got EXCEPT !.test_cases = Append(@, Len(got.received))]
                ELSE got
           ELSE IF msg.msg_type = "generate_complete"
           THEN [got EXCEPT !.pc = "returned", !.result = Ok(got.test_cases)]
           ELSE IF Aborts(msg)
           THEN [got EXCEPT !.pc = "returned", !.result = Err("Generator error")]
           ELSE IF msg.msg_type = "error"
           \* sleep(100 ms); continue
           THEN [got EXCEPT !.elapsed = @ + 1]
           ELSE got
    /\ UNCHANGED genframe

\* recv_timeout(100 ms) returns Err: nothing arrived within the period, or
\* the reader thread has ended (the loop then spins until the time is up)
GenPollEmpty ==
    /\ gen.pc = "loop"
    /\ ~TimedOut(gen.elapsed)
    /\ gen' = [gen EXCEPT !.polled_at = gen.elapsed, !.elapsed = @ + 1]
    /\ UNCHANGED genframe

\* the worker's next batch: generate_test_cases is called again on the same
\* client (main.rs fuzz loop); stdin, rx and the child are the client's
\* fields and are kept, the locals of the call are new
GenCallAgain ==
    /\ gen.pc = "returned"
    /\ gen.call < MaxCalls
    /\ gen' = [pc |-> "stop", sent |-> << >>, elapsed |-> 0,
               test_cases |-> << >>, received |-> << >>, polled_at |-> 0,
               result |-> Err("none"), call |-> gen.call + 1,
               origin |-> << >>,
               abandoned |-> \/ gen.abandoned
                             \/ /\ gen.sent = <<"stop", "generate">>
                                /\ ~gen.result.ok]
    /\ UNCHANGED genframe

NextGenerator ==
    \/ \E ok \in BOOLEAN : GenSendStop(ok)
    \/ \E ok \in BOOLEAN : GenSendGenerate(ok)
    \/ GenTimeout
    \/ \E msg \in GenMessages, wait \in {0, 1}, from \in 1 .. MaxCalls :
           from <= gen.call /\ GenPollMessage(msg, wait, from)
    \/ GenPollEmpty
    \/ GenCallAgain

\* the calling thread keeps running: every write, sleep and recv_timeout
\* returns
SpecGenerator ==
    InitGenerator /\ [][NextGenerator]_vars /\ WF_vars(NextGenerator)

IsTestCase(msg) == msg.msg_type = "test_case"
IsComplete(msg) == msg.msg_type = "generate_complete"
\* an error response other than "Generation already in progress"
OtherError(msg) == msg = GenMessage("error", "other")

\* the positions in `received` of the test cases that deserialize
RECURSIVE ValidFrom(_, _)
ValidFrom(received, i) ==
    IF i > Len(received) THEN << >>
    ELSE IF received[i] = GenMessage("test_case", "valid")
         THEN <<i>> \o ValidFrom(received, i + 1)
         ELSE ValidFrom(received, i + 1)

GenReturned == gen.pc = "returned"

\* what a finished call has returned, case by case
GenResultSound ==
    GenReturned =>
        LET n == Len(gen.received)
            completed == n > 0 /\ IsComplete(gen.received[n])
            aborted   == n > 0 /\ OtherError(gen.received[n])
        IN /\ \A i \in 1 .. (n - 1) :
                  ~IsComplete(gen.received[i]) /\ ~OtherError(gen.received[i])
           /\ gen.result.ok <=> completed
           /\ gen.result.ok =>
                  /\ gen.sent = <<"stop", "generate">>
                  /\ gen.result.test_cases = ValidFrom(gen.received, 1)
                  /\ gen.polled_at <= timeout_duration
           /\ ~gen.result.ok =>
                  /\ gen.result.test_cases = << >>
                  /\ gen.result.err = "Generator error" <=> aborted
                  /\ gen.result.err = "Generator timeout" <=>
                         (~aborted /\ gen.elapsed > timeout_duration)
                  /\ gen.result.err = "io" <=>
                         (n = 0 /\ gen.sent # <<"stop", "generate">>)

\* while the call runs it has written stop before generate, and it is still
\* running after any number of "Generation already in progress" answers
GenRunning ==
    gen.pc = "loop" =>
        /\ gen.sent = <<"stop", "generate">>
        /\ \A i \in 1 .. Len(gen.received) :
               ~IsComplete(gen.received[i]) /\ ~OtherError(gen.received[i])
        /\ gen.test_cases = ValidFrom(gen.received, 1)

C35_BatchIsolation ==
    (GenReturned /\ gen.result.ok) =>
        /\ \A k \in 1 .. Len(gen.result.test_cases) :
               gen.origin[gen.result.test_cases[k]] = gen.call
        /\ gen.origin[Len(gen.received)] = gen.call

(***************************************************************************)
(* SpecPoll: the polling loop of Master::run (main.rs:1186-1343) over      *)
(* NumChannels worker channels.  The senders are the worker threads; what  *)
(* a message carries is reduced to its kind, its source text and its       *)
(* position in the sender's output.                                        *)
(***************************************************************************)
\* number of worker -> master channels the master polls
NumChannels == 2
\* number of messages each worker sends
MaxSent == 2

Channels == 0 .. (NumChannels - 1)

PollMessage(type, js_code, from, seq) ==
    [type |-> type, program_ir |-> Ir(js_code), js_code |-> Js(js_code),
     from |-> from, seq |-> seq]

\* the master handles the message without executing it
PollSkips(msg) ==
    /\ msg.type = "NewCorpus"
    /\ (JsLen(msg.js_code) = 0 \/ IrLen(msg.program_ir) > 100 * 1024)

\* handling the message writes a file: a crash always, a candidate when the
\* master's replica reports new coverage for it
PollWrites(msg, accepted) ==
    \/ msg.type = "Crash"
    \/ msg.type = "NewCorpus" /\ ~PollSkips(msg) /\ accepted

pollframe == <<mgr, ops, corpus, seen, toWorker, collectorEnv, last,
               replica_inits, remote_corpus, gen>>

InitPoll ==
    /\ mgr = CorpusManager_new(0)
    /\ ops = 0
    /\ collectorEnv = FALSE
    /\ corpus = [p \in Procs |-> CorpusManager_new(p)]
    /\ seen = [p \in Procs |-> {}]
    /\ toWorker = [w \in Workers |-> << >>]
    /\ last = NoLast
    /\ replica_inits = [r \in ReplicaIds |-> 0]
    /\ remote_corpus = {}
    /\ gen = GenNone
    /\ wpc = [w \in Channels |-> "top"]
    /\ toMaster = [w \in Channels |-> << >>]
    /\ mstatus = "running"
    /\ mpos = 0
    /\ consecutive_errors = 0
    \* sent: messages sent per worker; start: the channels as they were when
    \* the current pass began; taken: the channels that delivered a message
    \* in the current pass, in the order polled; handled: every message the
    \* master has received, in the order received
    /\ ret = [sent    |-> [w \in Channels |-> 0],
              start   |-> [w \in Channels |-> << >>],
              taken   |-> << >>,
              handled |-> << >>]

\* a worker thread sends NewCorpus or Crash (main.rs:738-744, 765-769)
PollSend(w, type, js_code) ==
    /\ wpc[w] = "top"
    /\ ret.sent[w] < MaxSent
    /\ toMaster' = [toMaster EXCEPT ![w] =
           ChannelSend(@, PollMessage(type, js_code, w, ret.sent[w] + 1),
                       MasterAlive)]
    /\ ret' = [ret EXCEPT !.sent[w] = @ + 1]
    /\ UNCHANGED <<wpc, mstatus, mpos, consecutive_errors, pollframe>>

\* a worker thread ends and drops its Sender
PollHangUp(w) ==
    /\ wpc[w] = "top"
    /\ wpc' = [wpc EXCEPT ![w] = "exited"]
    /\ UNCHANGED <<toMaster, ret, mstatus, mpos, consecutive_errors, pollframe>>

\* try_recv returns Ok(NewCorpus) or Ok(Crash) (main.rs:1190-1321)
PollRecv(accepted, failing) ==
    /\ MasterAlive
    /\ mpos < NumChannels
    /\ toMaster[mpos] # << >>
    /\ LET msg == Head(toMaster[mpos])
       IN /\ toMaster' = [toMaster EXCEPT ![mpos] = Tail(@)]
          /\ consecutive_errors' = 0
          /\ mstatus' = IF PollWrites(msg, accepted) /\ failing
                        THEN "failed" ELSE "running"
          /\ ret' = [ret EXCEPT !.taken = Append(@, mpos),
                                !.handled = Append(@, <<msg.from, msg.seq>>)]
    /\ mpos' = mpos + 1
    /\ UNCHANGED <<wpc, pollframe>>

\* try_recv returns Err(Empty) (main.rs:1322-1325)
PollEmpty ==
    /\ MasterAlive
    /\ mpos < NumChannels
    /\ toMaster[mpos] = << >>
    /\ wpc[mpos] = "top"
    /\ mpos' = mpos + 1
    /\ UNCHANGED <<toMaster, ret, wpc, mstatus, consecutive_errors, pollframe>>

\* try_recv returns Err(Disconnected) (main.rs:1326-1333)
PollDisconnected ==
    /\ MasterAlive
    /\ mpos < NumChannels
    /\ toMaster[mpos] = << >>
    /\ wpc[mpos] = "exited"
    /\ consecutive_errors' = consecutive_errors + 1
    /\ mstatus' = IF consecutive_errors' >= max_consecutive_errors
                  THEN "done" ELSE "running"
    /\ mpos' = mpos + 1
    /\ UNCHANGED <<toMaster, ret, wpc, pollframe>>

\* the end of a pass: check_new_ast_files()? and the 100 ms sleep
\* (main.rs:1339-1342); the next pass begins
PollScan(ok) ==
    /\ MasterAlive
    /\ mpos = NumChannels
    /\ IF ok
       THEN /\ mpos' = 0
            /\ ret' = [ret EXCEPT !.start = toMaster, !.taken = << >>]
            /\ UNCHANGED mstatus
       ELSE /\ mstatus' = "failed"
            /\ UNCHANGED <<mpos, ret>>
    /\ UNCHANGED <<toMaster, wpc, consecutive_errors, pollframe>>

NextPoll ==
    \/ \E w \in Channels, type \in {"NewCorpus", "Crash"}, c \in Cands :
           PollSend(w, type, c)
    \/ \E w \in Channels : PollHangUp(w)
    \/ \E accepted \in BOOLEAN, failing \in BOOLEAN : PollRecv(accepted, failing)
    \/ PollEmpty
    \/ PollDisconnected
    \/ \E ok \in BOOLEAN : PollScan(ok)

SpecPoll == InitPoll /\ [][NextPoll]_vars

\* the messages of worker w among those the master has received
HandledFrom(w) ==
    LET FromW(h) == h[1] = w
    IN SelectSeq(ret.handled, FromW)

\* In each pass the channels that deliver a message are polled in
\* worker-id order, each at most once, and the messages of one worker are
\* received in the order sent.
PollOrder ==
    /\ \A i, j \in 1 .. Len(ret.taken) : i < j => ret.taken[i] < ret.taken[j]
    /\ \A w \in Channels :
           \A i \in 1 .. Len(HandledFrom(w)) : HandledFrom(w)[i] = <<w, i>>

\* every channel that held a message when the current pass began has
\* delivered one in this pass
PendingServed ==
    \A w \in Channels :
        ret.start[w] # << >> => \E i \in 1 .. Len(ret.taken) : ret.taken[i] = w

\* a pass that reaches its end has served every channel that was pending
PassServes == mpos = NumChannels => PendingServed

\* C24: round-robin service: in each polling pass the master takes at most
\* one message from each worker channel, visiting the channels in worker-id
\* order; a message pending when the pass begins is handled within that
\* pass, however many messages the other workers have queued (unless the
\* master shuts down after 10 consecutive Disconnected results); and the
\* messages of one worker are handled in the order that worker sent them.
C24_RoundRobin ==
    /\ PollOrder
    /\ PassServes
    /\ mstatus = "failed" => PendingServed

\* C33: master liveness with live workers: the master never shuts down
\* (Master::run never returns Ok) while at least one worker's channel to
\* the master is still connected; a single disconnected worker among N
\* cannot by itself drive the consecutive-disconnect count to 10.
C33_NoShutdownWithLiveWorker ==
    mstatus = "done" => \A w \in Channels : wpc[w] = "exited"

\* the edges cov_evaluate reports for execution k of a call
Reported(k) == ret.runs[k].edges \ ret.pre

\* execution k reproduces at least 80% of the expected edges
ReachesEightyPercent(k) ==
    5 * Cardinality(Elems(ret.edges) \cap Reported(k))
        >= 4 * Cardinality(Elems(ret.edges))

\* C26: maintain_coverage_with_mutated_edges reports new_coverage = true
\* only if some run crashed or some run reported strictly more edges than
\* the expected set holds; a successful run that reports no edges at all, or
\* only edges of the expected set, never sets new_coverage.
C26_NewCoverageOnlyOnCrashOrMore ==
    (ret.op = "maintain_coverage_with_mutated_edges" /\ ret.is_new_coverage) =>
        \E k \in 1 .. ret.executed :
            \/ get_result_code(ret.runs[k].code, PROFILE) = "Crash"
            \/ Cardinality(Reported(k)) > Len(ret.edges)

\* C12: called with a non-empty expected edge set,
\* maintain_coverage_with_mutated_edges returns maintained = true if and
\* only if, in one of at most 5 runs, at least 80% of the expected edges
\* (exactly 80% included) are among the edges reported for that run; it
\* returns at the first such run and returns maintained = false after 5
\* runs otherwise.
C12_MaintainedAtEightyPercent ==
    (ret.op = "maintain_coverage_with_mutated_edges" /\ ret.edges # << >>) =>
        LET hits == {k \in 1 .. MaintainRuns : ReachesEightyPercent(k)}
        IN /\ ret.maintained <=> hits # {}
           /\ ret.maintained =>
                  (ret.executed \in hits /\ \A k \in hits : ret.executed <= k)
           /\ ~ret.maintained => ret.executed = MaintainRuns

\* C13: the edge set extract_testcase_coverage returns is contained in the
\* initial edge set and in the set of edges reported by every run the
\* routine performed; a run that shares no edge with the running set
\* yields an empty result, not a stale one.
C13_StableSubset ==
    ret.op = "extract_testcase_coverage" =>
        /\ Elems(ret.out) \subseteq Elems(ret.edges)
        /\ \A k \in 1 .. ret.executed : Elems(ret.out) \subseteq Reported(k)

\* the Crash column of the profile table
CrashCodes(profile) ==
    CASE profile = "v8"    -> {5, 6, 11}
      [] profile = "gecko" -> {256}
      [] profile = "jsc"   -> {256, 6, 11}
      [] OTHER             -> {}

\* C18: get_result_code is total and matches the profile table: 0 is
\* Success and 0x10000 is Timeout under every profile; Crash is exactly
\* {5, 6, 11} under v8, {256} under gecko, {256, 6, 11} under jsc; every
\* other code is Error, and an unset PROFILE behaves as v8.
C18_ExitCodeClassification ==
    ret.op = "get_result_code" =>
        LET code    == ret.result_code
            profile == IF ret.PROFILE = "unset" THEN "v8" ELSE ret.PROFILE
        IN /\ ret.out \in {"Success", "Timeout", "Crash", "Error"}
           /\ ret.out = "Success" <=> code = 0
           /\ ret.out = "Timeout" <=> code = 65536
           /\ ret.out = "Crash" <=> code \in CrashCodes(profile)
           /\ ret.out = "Error" <=>
                  (code \notin {0, 65536} /\ code \notin CrashCodes(profile))

\* exit code 11 with PROFILE unset is a Crash, as under v8
C18_Witness ==
    /\ ret.op = "get_result_code"
    /\ ret.PROFILE = "unset"
    /\ ret.result_code = 11
    /\ ret.out = "Crash"

\* C19: common_subset(a, b) returns exactly the edges present in both a and
\* b, common_subset(a, b) and common_subset(b, a) are the same set, and
\* common_subset(a, a) is a, for slices with repeated or differently
\* ordered indices as well.
C19_CommonSubset ==
    ret.op = "common_subset" =>
        /\ Elems(ret.out) = Elems(ret.a) \cap Elems(ret.b)
        /\ Elems(ret.swapped) = Elems(ret.out)
        /\ ret.self = ret.a

\* a slice with a repeated index against one in another order
C19_Witness ==
    /\ ret.op = "common_subset"
    /\ ret.a = << 1, 1, 2 >>
    /\ ret.b = << 2, 1, 3 >>
    /\ ret.out = << 2, 1 >>
    /\ ret.swapped = << 1, 1, 2 >>
    /\ ret.self = << 1, 1, 2 >>

(***************************************************************************)
(* Claims settled under SpecCorpus.                                        *)
(***************************************************************************)

\* C25: stats dump invariance: two calls of dump_stats_to_json on a corpus
\* manager with no corpus operation in between produce snapshots that are
\* identical in every field except timestamp, whatever amount of time passes
\* between the two calls.
C25_DumpInvariance ==
    ret.op = "dump_stats_to_json" =>
        [ret.first EXCEPT !.timestamp = 0] = [ret.second EXCEPT !.timestamp = 0]

\* C7: should_keep_entry(e, has_new_coverage) returns true if and only if
\* has_new_coverage is true, or a bytecode collector is attached and its
\* analysis of e succeeds with is_novel = true.
C7_ShouldKeepIff ==
    ret.op = "should_keep_entry" =>
        (ret.out <=> (\/ ret.has_new_coverage
                      \/ (ret.pre.bytecode_collector /\ ret.analysis = "novel")))

\* a call without new coverage that is kept on bytecode novelty alone
C7_Witness ==
    /\ ret.op = "should_keep_entry"
    /\ ~ret.has_new_coverage
    /\ ret.pre.bytecode_collector
    /\ ret.analysis = "novel"
    /\ ret.out
    /\ ret.entry.has_novel_bytecode

\* C9: select_next_input returns no entry if and only if the corpus is empty
\* or the sum of all entry scores is 0; otherwise, for every draw in
\* [0, total), it returns an entry of the corpus.
C9_SelectNoneIff ==
    ret.op = "select_next_input" =>
        LET total == TotalScore(Scores(ret.pre.entries))
        IN /\ (ret.out = NoEntry) <=>
                  (Len(ret.pre.entries) = 0 \/ total = RZero)
           /\ ret.out # NoEntry =>
                  \E i \in 1 .. Len(mgr.entries) : mgr.entries[i] = ret.out

\* a selection from a corpus of two entries with a draw above one half
C9_Witness ==
    /\ ret.op = "select_next_input"
    /\ Len(ret.pre.entries) = 2
    /\ RLess(<<1, 2>>, ret.draw)
    /\ ret.out # NoEntry

\* running sum of the first i scores
RECURSIVE PrefixSum(_, _)
PrefixSum(scores, i) ==
    IF i = 0 THEN RZero ELSE RAdd(PrefixSum(scores, i - 1), scores[i])

\* the first position at which the running sum of scores reaches r
FirstReaching(scores, r) ==
    CHOOSE i \in 1 .. Len(scores) :
        /\ RLeq(r, PrefixSum(scores, i))
        /\ \A j \in 1 .. (i - 1) : RLess(PrefixSum(scores, j), r)

\* C10: for a draw r in [0, total score), select_next_input returns the first
\* entry in corpus order at which the running sum of scores reaches r (scores
\* A=3, B=1: r=2.5 selects A, r=3.5 selects B), increments the times_used of
\* exactly that entry by 1 and changes no counter of any other entry.
C10_WeightedSelection ==
    (ret.op = "select_next_input" /\ ret.out # NoEntry) =>
        LET scores == Scores(ret.pre.entries)
            r      == RMul(ret.draw, TotalScore(scores))
            i      == FirstReaching(scores, r)
        IN /\ ret.out = mgr.entries[i]
           /\ mgr.entries =
                  [ret.pre.entries EXCEPT ![i].times_used = @ + 1]
           /\ (scores = <<(<<3, 1>>), (<<1, 1>>)>> /\ r = <<5, 2>>) => i = 1
           /\ (scores = <<(<<3, 1>>), (<<1, 1>>)>> /\ r = <<7, 2>>) => i = 2

\* scores A = 3.0 and B = 1.0, r = 3.5: B is returned, used once, A untouched
C10_Witness ==
    /\ ret.op = "select_next_input"
    /\ Scores(ret.pre.entries) = <<(<<3, 1>>), (<<1, 1>>)>>
    /\ RMul(ret.draw, <<4, 1>>) = <<7, 2>>
    /\ ret.out = mgr.entries[2]
    /\ mgr.entries[2].times_used = 1
    /\ mgr.entries[1].times_used = 0

\* C27: update_entry_success(index, new_cov) with index present increments
\* that entry's success_count by 1 and adds new_cov to its coverage_found,
\* sets total_coverage[index] to new_cov (replacing any earlier value, so
\* get_feature_count(index) = new_cov afterwards), and changes neither any
\* other entry nor times_used, error_count, timeout_count,
\* performance_score or the mutation statistics.
C27_UpdateEntrySuccess ==
    (ret.op = "update_entry_success" /\ Find(ret.pre.entries, ret.index) # 0) =>
        LET pos == Find(ret.pre.entries, ret.index)
            old == ret.pre.entries[pos]
            new == mgr.entries[pos]
        IN /\ Len(mgr.entries) = Len(ret.pre.entries)
           /\ new.success_count = old.success_count + 1
           /\ new.coverage_found = old.coverage_found + ret.new_cov
           /\ get_feature_count(mgr, ret.index) = ret.new_cov
           /\ \A i \in DOMAIN mgr.entries : i # pos => mgr.entries[i] = ret.pre.entries[i]
           /\ new.times_used = old.times_used
           /\ new.error_count = old.error_count
           /\ new.timeout_count = old.timeout_count
           /\ new.performance_score = old.performance_score
           /\ new.index = old.index
           /\ mgr.total_mutations = ret.pre.total_mutations
           /\ mgr.successful_mutations = ret.pre.successful_mutations
           /\ \A f \in Indices \ {ret.index} :
                  get_feature_count(mgr, f) = get_feature_count(ret.pre, f)

\* a second success of an entry that had found 15 edges: the feature count
\* 15 is replaced by 1 while coverage_found grows to 16
C27_Witness ==
    /\ ret.op = "update_entry_success"
    /\ Find(ret.pre.entries, ret.index) # 0
    /\ get_feature_count(ret.pre, ret.index) = 15
    /\ ret.new_cov = 1
    /\ get_feature_count(mgr, ret.index) = 1
    /\ mgr.entries[Find(mgr.entries, ret.index)].coverage_found = 16
    /\ mgr.entries[Find(mgr.entries, ret.index)].success_count = 2

\* the manager with entry `pos` given one more error
WithError(m, pos) == [m EXCEPT !.entries[pos].error_count = @ + 1]
\* the manager with entry `pos` given one more timeout
WithTimeout(m, pos) == [m EXCEPT !.entries[pos].timeout_count = @ + 1]
\* the manager with the performance score of entry `pos` replaced
WithScore(m, pos, score) == [m EXCEPT !.entries[pos].performance_score = score]

\* C28: update_entry_error(index) and update_entry_timeout(index) increment
\* only the respective counter of the addressed entry by 1 (besides the
\* score decay of C20), and each call increases total_mutations by exactly 1
\* while leaving successful_mutations unchanged; hence after any sequence of
\* corpus operations successful_mutations <= total_mutations, a fresh
\* manager starts with both at 0 and no other operation changes them, so
\* total_mutations equals the number of error and timeout updates made.
C28_FailureCounters ==
    /\ mgr.successful_mutations <= mgr.total_mutations
    /\ ret.op = "new" => mgr.total_mutations = 0
    /\ ret.op \in {"update_entry_error", "update_entry_timeout"} =>
           /\ mgr.total_mutations = ret.pre.total_mutations + 1
           /\ mgr.successful_mutations = ret.pre.successful_mutations
           /\ LET pos == Find(ret.pre.entries, ret.index)
                  counted == [mgr EXCEPT !.total_mutations = @ - 1]
              IN IF pos = 0 THEN counted = ret.pre
                 ELSE WithScore(counted, pos, ROne) =
                          WithScore(IF ret.op = "update_entry_error"
                                    THEN WithError(ret.pre, pos)
                                    ELSE WithTimeout(ret.pre, pos), pos, ROne)
    /\ ret.op \notin {"new", "update_entry_error", "update_entry_timeout"} =>
           /\ mgr.total_mutations = ret.pre.total_mutations
           /\ mgr.successful_mutations = ret.pre.successful_mutations

\* an error and then a timeout recorded for the same entry, which had
\* succeeded before: total_mutations is 2 and successful_mutations still 0
C28_Witness ==
    /\ ret.op = "update_entry_timeout"
    /\ Find(ret.pre.entries, ret.index) # 0
    /\ mgr.total_mutations = 2
    /\ mgr.successful_mutations = 0
    /\ LET e == mgr.entries[Find(mgr.entries, ret.index)]
       IN e.error_count = 1 /\ e.timeout_count = 1 /\ e.success_count = 1

\* C39: update_entry_success, update_entry_error and update_entry_timeout
\* called with an index that no entry carries leave the manager as it was:
\* entries, total_coverage, last_new_coverage and the mutation statistics
C39_AbsentIndexNoOp ==
    (/\ ret.op \in {"update_entry_success", "update_entry_error",
                    "update_entry_timeout"}
     /\ Find(ret.pre.entries, ret.index) = 0)
        => mgr = ret.pre

\* C40: select_random_input does not fail; on an empty corpus it returns no
\* entry, as get_random_program_ir returns the empty string there; on a
\* non-empty corpus it returns an entry of the corpus, and it leaves the
\* manager, every counter of every entry included, as it was
C40_SelectRandomTotal ==
    /\ ret.op = "select_random_input" =>
           /\ ret.out # Panic
           /\ mgr = ret.pre
           /\ IF ret.pre.entries = << >>
              THEN ret.out = NoEntry
              ELSE \E i \in DOMAIN ret.pre.entries : ret.out = ret.pre.entries[i]
    /\ (ret.op = "get_random_program_ir" /\ ret.pre.entries = << >>) =>
           IrLen(ret.out) = 0 /\ mgr = ret.pre

\* C31: index uniqueness: after any sequence of add_entry and delete_entry
\* calls on a corpus, no two entries have the same index, so an update or a
\* delete with a given index addresses at most one entry.
C31_IndexUniqueness ==
    \A i, j \in DOMAIN mgr.entries :
        i # j => mgr.entries[i].index # mgr.entries[j].index

\* C11: add_entry on a corpus holding n entries always appends: afterwards
\* the corpus has n+1 entries, the new entry is last with index = n, its
\* times_used, success_count, error_count, timeout_count and coverage_found
\* are 0 and its performance_score is 1.0 whatever the passed entry carried,
\* it keeps the passed IR and source, and the n existing entries and every
\* other field of the manager are unchanged.
C11_AddEntryAppends ==
    ret.op = "add_entry" =>
        LET n == Len(ret.pre.entries)
            e == mgr.entries[n + 1]
        IN /\ Len(mgr.entries) = n + 1
           /\ e.index = n
           /\ e.times_used = 0
           /\ e.success_count = 0
           /\ e.error_count = 0
           /\ e.timeout_count = 0
           /\ e.coverage_found = 0
           /\ e.performance_score = ROne
           /\ e.program_ir = ret.entry.program_ir
           /\ e.js_code = ret.entry.js_code
           /\ SubSeq(mgr.entries, 1, n) = ret.pre.entries
           /\ [mgr EXCEPT !.entries = ret.pre.entries] = ret.pre

\* the clone of an entry that had failed and succeeded is appended with
\* fresh counters next to the entry it was cloned from
C11_Witness ==
    /\ ret.op = "add_entry"
    /\ Len(ret.pre.entries) = 1
    /\ ret.entry.error_count > 0
    /\ ret.entry.coverage_found > 0
    /\ ret.entry.performance_score # ROne
    /\ Len(mgr.entries) = 2
    /\ mgr.entries[1] = ret.entry
    /\ mgr.entries[2].index = 1
    /\ mgr.entries[2].error_count = 0

\* q to the power n
RECURSIVE RPow(_, _)
RPow(q, n) == IF n = 0 THEN ROne ELSE RMul(q, RPow(q, n - 1))

\* the decay counters and the score of an entry
Decay(entry) ==
    <<entry.error_count, entry.timeout_count, entry.performance_score>>

IsNewCorpus(s) == s.msg.type = "NewCorpus"
IsCrash(s) == s.msg.type = "Crash"
InCrashes(f) == f.dir = "crashes"
NewCorpusSends(r) == SelectSeq(r.sends, IsNewCorpus)
CrashSends(r) == SelectSeq(r.sends, IsCrash)
CrashWrites(r) == SelectSeq(r.writes, InCrashes)
\* the elements appended to queue q by a step that left q2
Appended(q, q2) == SubSeq(q2, Len(q) + 1, Len(q2))
\* the entry add_entry stores for a pair appended to a corpus of n entries
Stored(program_ir, js_code, n) ==
    [CorpusEntry_new(program_ir, js_code) EXCEPT !.index = n]

\* C1: when the master re-executes the candidate of a NewCorpus message and
\* its own replica reports new_cov = 0, the message is dropped: no file is
\* written, nothing is sent on any worker channel and the master's corpus is
\* unchanged, whatever pass the worker reported.
C1_MasterDropsWithoutNewCoverage ==
    [][ (last'.op = "master_new_corpus" /\ last'.executed /\ last'.new_cov = 0)
        => /\ last'.writes = << >>
           /\ last'.sends = << >>
           /\ toWorker' = toWorker
           /\ corpus'[MasterId] = corpus[MasterId]
           /\ mstatus' = mstatus ]_vars

\* a message sent for new coverage in the worker's replica is dropped
C1_Witness ==
    /\ last.op = "master_new_corpus"
    /\ last.executed
    /\ last.new_cov = 0
    /\ last.msg.pass = "IPCGenerator"
    /\ seen[0] # seen[MasterId]

\* C2: every candidate the master accepts (new_cov > 0 in its replica) is
\* persisted to corpus/ and corpus_ir/, then sent exactly once on every
\* worker's channel, then appended exactly once to the master's corpus.
C2_AcceptedIsDistributed ==
    [][ (last'.op = "master_new_corpus" /\ last'.executed /\ last'.new_cov > 0)
        => LET msg == last'.msg
               out == MasterNewCorpus(msg.program_ir, msg.js_code)
               n   == Len(corpus[MasterId].entries)
           IN /\ Len(last'.writes) = 2
              /\ \A i \in 1 .. 2 : last'.writes[i].ok
              /\ Len(last'.sends) = NUM_WORKERS
              /\ \A v \in Workers :
                    /\ last'.sends[v + 1].to = v
                    /\ last'.sends[v + 1].msg = out
                    /\ Appended(toWorker[v], toWorker'[v]) =
                          (IF last'.sends[v + 1].ok THEN << out >> ELSE << >>)
              /\ corpus'[MasterId].entries =
                    Append(corpus[MasterId].entries,
                           Stored(msg.program_ir, msg.js_code, n)) ]_vars

\* C14: when the master accepts a candidate and no minimized candidate
\* maintains the observed edges (the minimizer returned none), the original
\* pair is the form the master persists (its source in corpus/ and its IR
\* in corpus_ir/) and broadcasts on every worker channel.
C14_OriginalPersistedAndBroadcast ==
    [][ (/\ last'.op = "master_new_corpus" /\ last'.executed
         /\ last'.new_cov > 0 /\ ~last'.is_maintained)
        => LET msg == last'.msg
               ws  == last'.writes
           IN /\ \E i \in 1 .. Len(ws) :
                    ws[i].dir = "corpus" /\ ws[i].text = msg.js_code /\ ws[i].ok
              /\ \E i \in 1 .. Len(ws) :
                    /\ ws[i].dir = "corpus_ir" /\ ws[i].text = msg.program_ir
                    /\ ws[i].ok
              /\ \A v \in Workers :
                    \E i \in 1 .. Len(last'.sends) :
                        /\ last'.sends[i].to = v
                        /\ last'.sends[i].msg.js_code = msg.js_code
                        /\ last'.sends[i].msg.program_ir = msg.program_ir ]_vars

\* the handlers of Master::run
MasterOps == {"master_new_corpus", "master_crash", "master_empty",
              "master_disconnected", "check_new_ast_files"}

\* C15: Master::run returns Ok exactly when it has observed 10 Disconnected
\* results with no message received in between; a NewCorpus or Crash
\* message resets the count to 0, an empty channel neither increments nor
\* resets it, and with fewer than 10 the master keeps polling.
C15_MasterShutdown ==
    [][ /\ (mstatus = "running" /\ mstatus' = "done")
              <=> (/\ last'.op = "master_disconnected"
                   /\ consecutive_errors' = max_consecutive_errors)
        /\ last'.op = "master_disconnected"
              => consecutive_errors' = consecutive_errors + 1
        /\ last'.op \in {"master_new_corpus", "master_crash"}
              => consecutive_errors' = 0
        /\ last'.op = "master_empty"
              => consecutive_errors' = consecutive_errors
        /\ (last'.op \in MasterOps
               /\ consecutive_errors' < max_consecutive_errors)
              => mstatus' = "running" ]_vars

\* C15 without its last part: the count of Disconnected results and the
\* clean return
DisconnectCounting ==
    [][ /\ (mstatus = "running" /\ mstatus' = "done")
              <=> (/\ last'.op = "master_disconnected"
                   /\ consecutive_errors' = max_consecutive_errors)
        /\ last'.op = "master_disconnected"
              => consecutive_errors' = consecutive_errors + 1
        /\ last'.op \in {"master_new_corpus", "master_crash"}
              => consecutive_errors' = 0
        /\ last'.op = "master_empty"
              => consecutive_errors' = consecutive_errors
        /\ (last'.op \in {"master_empty", "master_disconnected"}
               /\ consecutive_errors' < max_consecutive_errors)
              => mstatus' = "running" ]_vars

\* a write of the step recorded in r failed
WriteFailed(r) == \E i \in 1 .. Len(r.writes) : ~r.writes[i].ok

\* C16: a failed write while persisting a corpus entry or a crash, in a
\* worker or in the master, is skipped: the worker stays in its loop and
\* Master::run keeps running.
C16_FilesystemFailuresNotFatal ==
    [][ /\ (last'.op = "run_single_input" /\ last'.executed /\ WriteFailed(last'))
              => wpc'[last'.by] = wpc[last'.by]
        /\ (last'.op = "master_new_corpus" /\ last'.executed /\ WriteFailed(last'))
              => mstatus' = "running"
        /\ (last'.op = "master_crash" /\ WriteFailed(last'))
              => mstatus' = "running" ]_vars

\* C17: every execution in the loop of a worker whose corpus holds an entry
\* and whose outcome is Timeout increments the timeout_count of one entry
\* of that corpus by 1 and multiplies its performance_score by 0.90 (Error:
\* error_count and 0.95), whether or not the execution produced new
\* coverage.
C17_OutcomesFeedCounters ==
    [][ (/\ last'.op = "run_single_input" /\ last'.executed
         /\ corpus[last'.by].entries # << >>)
        => LET w   == last'.by
               rc  == get_result_code(last'.code, PROFILE)
               old == corpus[w].entries
               new == corpus'[w].entries
           IN /\ rc = "Timeout" =>
                    \E i \in 1 .. Len(old) :
                        /\ i <= Len(new)
                        /\ new[i].timeout_count = old[i].timeout_count + 1
                        /\ new[i].performance_score =
                               RMul(old[i].performance_score, <<90, 100>>)
              /\ rc = "Error" =>
                    \E i \in 1 .. Len(old) :
                        /\ i <= Len(new)
                        /\ new[i].error_count = old[i].error_count + 1
                        /\ new[i].performance_score =
                               RMul(old[i].performance_score, <<95, 100>>) ]_vars

\* C21: every .json file of at most 100 KB that a scan of remote_corpus/
\* finds is processed by that scan (validated, minimized, distributed),
\* smallest file first, and is deleted by the end of the scan.
C21_RemoteIngest ==
    [][ (last'.op = "check_new_ast_files" /\ last'.ok)
        => LET eligible == {f \in remote_corpus : f.size <= 100 * 1024}
           IN /\ last'.found = remote_corpus
              /\ last'.processed = SortBySize(eligible)
              /\ remote_corpus' \cap eligible = {} ]_vars

\* C22: for every replica id used by a worker or the master, the
\* init/spawn/finish_initialization sequence is performed exactly once, and
\* a process executes only on a replica that has been initialised.
C22_ReplicaInitialisedOnce ==
    /\ \A r \in ReplicaIds : replica_inits[r] <= 1
    /\ \A w \in Workers : wpc[w] \in {"top", "batch", "drain"}
                               => replica_inits[w] = 1
    /\ replica_inits[MasterId] = 1

\* the handlers a worker thread runs
WorkerOps == {"Fuzzer::new", "generate_test_cases", "run_single_input",
              "batch_done", "recv_broadcast", "drain_end"}

C30_TelemetryStateMachine ==
    [][ LET r == last'.reported
        IN /\ last'.op = "generate_test_cases" /\ last'.outcome # "absent"
                 => r = << "Generating" >>
           /\ (last'.op = "run_single_input" /\ last'.executed) =>
                 /\ Len(r) >= 3
                 /\ SubSeq(r, 1, 3) = << "Mutating", "Executing", "CoverageCheck" >>
                 /\ \A i \in 1 .. Len(r) :
                        r[i] = "SavingCrash" =>
                            \E j \in 1 .. (i - 1) : r[j] = "Executing"
           /\ last'.op = "drain_end" => r = << "Idle" >>
           /\ (last'.op = "master_new_corpus" /\ last'.executed
                 /\ MasterAccepts(last'.new_cov)) =>
                 r = << "Executing", "CoverageCheck", "Minimizing",
                        "Maintaining", "Generating", "Idle" >> ]_vars

\* the master has executed a candidate it received and evaluated its
\* coverage
MasterEvaluated(l) == l.op = "master_new_corpus" /\ l.executed

\* C37: the master replica never loses an edge; when the master has handled
\* a candidate, the edges cov_evaluate reported for it (new_cov of them, none
\* seen before) are all seen in the master replica, so an execution that
\* hits only edges already credited reports none, and its candidate is
\* neither added, saved nor broadcast.
C37_EdgesConsumed ==
    [][ /\ seen[MasterId] \subseteq seen'[MasterId]
        /\ MasterEvaluated(last') =>
               /\ Cardinality(seen'[MasterId] \ seen[MasterId]) = last'.new_cov
               /\ seen'[MasterId] = seen[MasterId] =>
                      /\ last'.sends = << >> /\ last'.writes = << >>
                      /\ last'.added = 0
                      /\ toWorker' = toWorker
                      /\ corpus'[MasterId] = corpus[MasterId] ]_vars

\* the master holds a candidate it accepted earlier, has received the same
\* candidate again and has dropped it
C37_Witness ==
    /\ MasterEvaluated(last)
    /\ last.new_cov = 0 /\ last.added = 0
    /\ seen[MasterId] # {}
    /\ \E i \in DOMAIN corpus[MasterId].entries :
           corpus[MasterId].entries[i].js_code = last.msg.js_code

\* C38: an entry a worker adds to its corpus only because the collector
\* reported it novel (no new coverage) carries has_novel_bytecode = true in
\* the corpus
C38_NoveltyFlagKept ==
    [][ (/\ last'.op = "run_single_input" /\ last'.executed
         /\ last'.kept /\ last'.new_cov = 0 /\ last'.added = 1)
            => LET entries == corpus'[last'.by].entries
               IN entries[Len(entries)].has_novel_bytecode ]_vars

\* worker w has the candidate in its local corpus
Holds(w, c) ==
    \E i \in DOMAIN corpus[w].entries : corpus[w].entries[i].js_code = Js(c)

\* the master has just accepted the candidate c that worker w reported with
\* new coverage and has put it, unchanged, on w's channel
BroadcastOfDiscovery(w, c) ==
    /\ last.op = "master_new_corpus"
    /\ last.from = w
    /\ last.executed /\ last.added = 1
    /\ last.msg = WorkerNewCorpus(Ir(c), Js(c), "IPCGenerator")
    /\ last.sends[w + 1] = [to |-> w, msg |-> MasterNewCorpus(Ir(c), Js(c)),
                            ok |-> TRUE]

\* C32: discovery reaches the discoverer: if worker w reports a candidate
\* with new coverage and the master accepts and broadcasts it unchanged,
\* then w eventually holds that candidate in its own local corpus.
C32_DiscoveryReachesDiscoverer ==
    \A w \in Workers, c \in Cands :
        BroadcastOfDiscovery(w, c) ~> Holds(w, c)

\* C3: a broadcast a worker drains is executed once in the worker's replica,
\* and it is appended to the worker's corpus if and only if the execution
\* did not take more than 5 s and cov_evaluate reported new edges in this
\* replica; otherwise the corpus is unchanged.
C3_BroadcastReexecuted ==
    [][ last'.op = "recv_broadcast"
        => LET w   == last'.by
               msg == Head(toWorker[w])
               n   == Len(corpus[w].entries)
               gained == seen'[w] # seen[w]
           IN /\ last'.execs = 1
              /\ last'.msg = msg
              /\ toWorker'[w] = Tail(toWorker[w])
              /\ IF ~(last'.elapsed > 5) /\ gained
                 THEN corpus'[w].entries =
                          Append(corpus[w].entries,
                                 Stored(msg.program_ir, msg.js_code, n))
                 ELSE corpus'[w] = corpus[w] ]_vars

\* a worker admits a broadcast that took exactly 5 s and gained coverage
C3_Witness ==
    /\ last.op = "recv_broadcast"
    /\ last.elapsed = 5
    /\ last.added = 1
    /\ corpus[last.by].entries # << >>
    /\ corpus[last.by].entries[Len(corpus[last.by].entries)].js_code
           = last.msg.js_code
    /\ last.cov > 0

\* C4: for every generated candidate a worker executes in under 5 s with
\* new_cov > 0, the worker sends exactly one WorkerMessage::NewCorpus with
\* that candidate's IR and source; a send that succeeds puts the message on
\* the master's channel and writes no corpus file, a send that fails is
\* followed by save_interesting_input (the source to corpus/, then, the
\* first write done, the IR to corpus_ir/); in both cases the worker stays
\* in its batch loop.
C4_WorkerReportsNewCoverage ==
    [][ (/\ last'.op = "run_single_input" /\ last'.executed
         /\ last'.elapsed < 5 /\ last'.new_cov > 0)
        => LET w  == last'.by
               c  == last'.c
               nc == NewCorpusSends(last')
               ap == Appended(toMaster[w], toMaster'[w])
               cw == SelectSeq(last'.writes, LAMBDA f : f.dir # "crashes")
           IN /\ Len(nc) = 1
              /\ nc[1].msg.program_ir = Ir(c)
              /\ nc[1].msg.js_code = Js(c)
              /\ IF nc[1].ok
                 THEN /\ ap # << >> /\ ap[1] = nc[1].msg
                      /\ cw = << >>
                 ELSE /\ SelectSeq(ap, LAMBDA m : m.type = "NewCorpus") = << >>
                      /\ cw # << >>
                      /\ cw[1].dir = "corpus" /\ cw[1].text = Js(c)
                      /\ cw[1].ok =>
                            /\ Len(cw) = 2
                            /\ cw[2].dir = "corpus_ir" /\ cw[2].text = Ir(c)
              /\ wpc'[w] = "batch" ]_vars

\* the master is gone, the send fails and both files are written
C4_Witness ==
    /\ last.op = "run_single_input"
    /\ last.executed
    /\ last.elapsed < 5
    /\ last.new_cov > 0
    /\ ~MasterAlive
    /\ ~last.sends[1].ok
    /\ Len(last.writes) = 2
    /\ last.writes[1].ok /\ last.writes[2].ok
    /\ wpc[last.by] = "batch"

\* C5: an execution by a worker is classified Crash (exit code 5, 6 or 11
\* under the v8 profile) exactly when the worker reports SavingCrash, calls
\* save_crash with the source (one write to crashes/) and sends exactly one
\* WorkerMessage::Crash with the candidate's IR and source, whether or not
\* the candidate was retained, had new coverage or was slow; no other
\* handler of the worker or of the master reports SavingCrash.
C5_CrashPath ==
    [][ LET saving == \E i \in 1 .. Len(last'.reported) :
                          last'.reported[i] = "SavingCrash"
            ran    == last'.op = "run_single_input" /\ last'.executed
        IN /\ saving => ran
           /\ ran =>
                 LET w  == last'.by
                     c  == last'.c
                     cs == CrashSends(last')
                     cw == CrashWrites(last')
                     ap == SelectSeq(Appended(toMaster[w], toMaster'[w]),
                                     LAMBDA m : m.type = "Crash")
                 IN IF last'.code \in {5, 6, 11}
                    THEN /\ saving
                         /\ Len(cw) = 1 /\ cw[1].text = Js(c)
                         /\ Len(cs) = 1 /\ cs[1].msg = WorkerCrash(Ir(c), Js(c))
                         /\ ap = (IF cs[1].ok THEN << cs[1].msg >> ELSE << >>)
                    ELSE /\ ~saving
                         /\ cw = << >> /\ cs = << >> /\ ap = << >> ]_vars

\* a crash that was slow, brought no coverage and was not retained is
\* saved and reported
C5_Witness ==
    /\ last.op = "run_single_input"
    /\ last.executed
    /\ last.code = 5
    /\ last.elapsed = 6
    /\ last.new_cov = 0
    /\ ~last.kept
    /\ Len(last.sends) = 1
    /\ last.sends[1].ok
    /\ toMaster[last.by] # << >>
    /\ toMaster[last.by][Len(toMaster[last.by])].type = "Crash"
    /\ last.writes[1].ok

\* C6: when a worker's candidate has new_cov = 0 and the enabled collector,
\* asked about it, reports is_novel = true, the worker appends the
\* candidate to its corpus exactly once and sends exactly one NewCorpus with
\* pass "BytecodeNovelty"; with the collector disabled a candidate with
\* new_cov = 0 is neither added nor sent.
C6_BytecodeNovelty ==
    [][ (last'.op = "run_single_input" /\ last'.executed /\ last'.new_cov = 0)
        => LET w  == last'.by
               c  == last'.c
               n  == Len(corpus[w].entries)
               nc == NewCorpusSends(last')
           IN /\ (collectorEnv /\ last'.analysis = "novel")
                 => /\ corpus'[w].entries =
                          Append(corpus[w].entries, Stored(Ir(c), Js(c), n))
                    /\ Len(nc) = 1
                    /\ nc[1].msg = WorkerNewCorpus(Ir(c), Js(c), "BytecodeNovelty")
                    /\ nc[1].ok => Appended(toMaster[w], toMaster'[w])[1]
                                      = nc[1].msg
              /\ ~collectorEnv
                 => /\ corpus'[w] = corpus[w]
                    /\ nc = << >>
                    /\ SelectSeq(Appended(toMaster[w], toMaster'[w]),
                                 LAMBDA m : m.type = "NewCorpus") = << >> ]_vars

\* a candidate without new coverage is in the corpus and on the master's
\* channel because the collector found it novel
C6_Witness ==
    /\ last.op = "run_single_input"
    /\ last.executed
    /\ last.new_cov = 0
    /\ collectorEnv
    /\ last.analysis = "novel"
    /\ last.added = 1
    /\ corpus[last.by].entries[Len(corpus[last.by].entries)].js_code = Js(last.c)
    /\ toMaster[last.by] # << >>
    /\ toMaster[last.by][Len(toMaster[last.by])].pass = "BytecodeNovelty"

\* C8: in every reachable state of a worker's or the master's corpus, every
\* entry satisfies times_used >= success_count + error_count + timeout_count.
C8_TimesUsedCoversOutcomes ==
    \A p \in Procs : \A i \in 1 .. Len(corpus[p].entries) :
        LET e == corpus[p].entries[i]
        IN e.times_used >= e.success_count + e.error_count + e.timeout_count

=============================================================================
